---- MODULE Spec2Model ----
(***************************************************************************)
(* web_fourier: the Fourier engine (src/src/math.rs), the animation        *)
(* controller that steps over it (src/src/animation.rs) and the handlers   *)
(* of the page (src/src/lib.rs).                                           *)
(*                                                                         *)
(* Numbers.  Complex32 values are pairs <<re, im>> of integers in units of *)
(* 1/Scale (fixed point): the code computes in f32, the model in fixed     *)
(* point, and "equal within numerical tolerance" is Close below.  usize is *)
(* a machine word of UsizeBits bits; arithmetic on it either panics (a     *)
(* build with overflow checks, "debug") or wraps modulo 2^UsizeBits (a     *)
(* build without, "release").  f64 positions are kept in half samples:     *)
(* every speed and elapsed time the model feeds in is a multiple of 1/2,   *)
(* for which f64 arithmetic is exact.  SpecApp, where the speed controls   *)
(* leave those values, keeps both f64 fields bit for bit (see f64 below).  *)
(***************************************************************************)
EXTENDS Integers, Sequences, FiniteSets, TLC

VARIABLES
    build,          \* "debug" (overflow checks on) or "release" (wrapping)
    data,           \* the samples handed to math::Fourier::from_complex
    engine,         \* what from_complex returned: Ok(Fourier) or Err(message)
    query,          \* the last engine query and what it returned
    k_min,          \* animation::Fourier.k_min
    k_max,          \* animation::Fourier.k_max
    current_point,  \* animation::Fourier.current_point (f64), in half samples
                    \* (in SpecApp: the f64 itself, in samples)
    point_speed,    \* animation::Fourier.point_speed (f64), samples per time unit
                    \* (in SpecApp: the f64 itself)
    is_paused,      \* animation::Fourier.is_paused
    is_stopped,     \* animation::Fourier.is_stopped
    loop_running,   \* the canvas animation loop has been started and not stopped
    lastOp,         \* the name of the last controller call
    lastArg,        \* the speed given to set_speed, the elapsed time (in half
                    \* time units) given to a step that was not paused; else 0
    run,            \* the ticks since start() left Stopped: total advance, dt, speed
    frame,          \* what the last step did: index used, drawn, reported, panicked
    ANIMATION,      \* the thread-local singleton: whether it holds a controller
                    \* (then the fields above are that controller's) and how
                    \* many controllers it has dropped with their loop running
    past,           \* what the last handlers did: the last speed controls and
                    \* the speed each found, the toggles that left a Playing
                    \* controller Playing, whether a controller was installed
    EXAMPLE_CACHE,  \* the thread-local example cache of lib.rs: whether it holds
                    \* an ExampleCache and of which kind (then data is its
                    \* vector x and engine its fourier)
    prepared        \* what the page builds from an example kind or code, a
                    \* function of that number alone, computed once

vars == << build, data, engine, query, k_min, k_max, current_point, point_speed,
           is_paused, is_stopped, loop_running, lastOp, lastArg, run, frame,
           ANIMATION, past, EXAMPLE_CACHE, prepared >>

engineVars == << build, data, engine >>
animVars == << k_min, k_max, current_point, point_speed, is_paused, is_stopped,
               loop_running, lastOp, lastArg, run, frame >>
appVars == << ANIMATION, past, EXAMPLE_CACHE, prepared >>

---------------------------------------------------------------------------
(* Bounds of the model *)

\* longest sample sequence handed to from_complex in SpecEngine
MaxLen == 5
\* largest signal length of the engine an animation is bound to in Spec
MaxPoints == 4
\* largest frequency index given as k_min / k_max
MaxK == 2
\* a step that advances is taken only from positions up to PosCap half samples
PosCap == 10

---------------------------------------------------------------------------
(* Number representation *)

Scale == 10000
\* Scale = ScaleRoot * ScaleRoot
ScaleRoot == 100
\* The width of usize.  The wasm32 target has 32 bits; TLC's integers end at
\* 2^31 - 1, so the word is kept at 16 bits, the narrowest usize Rust has.  No
\* length, index or band of the model comes near 2^16: the width shows only in
\* wrapped results and in the saturation of `as usize`.
UsizeBits == 16
UsizeModulus == 2 ^ UsizeBits
UsizeMax == UsizeModulus - 1
DEFAULT_SPEED == 50

Builds == {"debug", "release"}

Ok(v) == [tag |-> "Ok", val |-> v]
Err(m) == [tag |-> "Err", val |-> m]
Panic(m) == [tag |-> "Panic", val |-> m]

\* a - b on usize
usize_sub(a, b, bld) ==
    IF a >= b THEN Ok(a - b)
    ELSE IF bld = "debug" THEN Panic("attempt to subtract with overflow")
    ELSE Ok(a - b + UsizeModulus)

\* a + b on usize
usize_add(a, b, bld) ==
    IF a + b <= UsizeMax THEN Ok(a + b)
    ELSE IF bld = "debug" THEN Panic("attempt to add with overflow")
    ELSE Ok(a + b - UsizeModulus)

\* f64 -> usize, `x as usize`: truncates toward zero and saturates
f64_as_usize(halves) ==
    IF halves < 0 THEN 0
    ELSE IF halves \div 2 > UsizeMax THEN UsizeMax
    ELSE halves \div 2

\* x / d rounded to the nearest integer
RoundDiv(x, d) == (2 * x + d) \div (2 * d)

\* f32 sample components: a finite value (kept in units of 1/Scale), NaN or
\* +-infinity.  Fin takes whole units, FinFixed units of 1/Scale.
FinFixed(f) == [cls |-> "fin", v |-> f]
Fin(v) == FinFixed(v * Scale)
NaN == [cls |-> "nan", v |-> 0]
Inf(sign) == [cls |-> "inf", v |-> sign]
Complex32(re, im) == [re |-> re, im |-> im]
is_finite(c) == c.cls = "fin"

\* a validated sample as a fixed-point pair
ToFixed(s) == << s.re.v, s.im.v >>

\* a * b for fixed-point a, b: RoundDiv(a * b, Scale), with the product split
\* so that it stays inside TLC's integers: FMul for b up to about 10 (a
\* direction, a normalisation factor), FMulWide for any b
FMul(a, b) == (a \div Scale) * b + RoundDiv((a % Scale) * b, Scale)
FMulWide(a, b) ==
    (a \div Scale) * b + (a % Scale) * (b \div Scale)
        + RoundDiv((a % Scale) * (b % Scale), Scale)
\* a / x for fixed-point a, x: RoundDiv(a * Scale, x), the quotient taken in
\* three steps so that it stays inside TLC's integers
FDiv(a, x) ==
    LET high == (a % x) * ScaleRoot
        low == (high % x) * ScaleRoot
    IN  (a \div x) * Scale + (high \div x) * ScaleRoot + RoundDiv(low, x)

CAdd(a, b) == << a[1] + b[1], a[2] + b[2] >>
CMul(a, b) ==
    << FMul(a[1], b[1]) - FMul(a[2], b[2]),
       FMul(a[1], b[2]) + FMul(a[2], b[1]) >>
\* c * x for a real x in fixed point
CScale(c, x) == << FMul(c[1], x), FMul(c[2], x) >>
\* c / x for a real x in fixed point
CDiv(c, x) == << FDiv(c[1], x), FDiv(c[2], x) >>
norm_sqr(c) == FMulWide(c[1], c[1]) + FMulWide(c[2], c[2])

\* cos and sin of 2*pi*m/n, for n = 1..8 and m = 0..n-1
TrigTable ==
  <<
     << <<10000, 0>> >>,
     << <<10000, 0>>, <<-10000, 0>> >>,
     << <<10000, 0>>, <<-5000, 8660>>, <<-5000, -8660>> >>,
     << <<10000, 0>>, <<0, 10000>>, <<-10000, 0>>, <<0, -10000>> >>,
     << <<10000, 0>>, <<3090, 9511>>, <<-8090, 5878>>, <<-8090, -5878>>, <<3090, -9511>> >>,
     << <<10000, 0>>, <<5000, 8660>>, <<-5000, 8660>>, <<-10000, 0>>, <<-5000, -8660>>, <<5000, -8660>> >>,
     << <<10000, 0>>, <<6235, 7818>>, <<-2225, 9749>>, <<-9010, 4339>>, <<-9010, -4339>>, <<-2225, -9749>>, <<6235, -7818>> >>,
     << <<10000, 0>>, <<7071, 7071>>, <<0, 10000>>, <<-7071, 7071>>, <<-10000, 0>>, <<-7071, -7071>>, <<0, -10000>>, <<7071, -7071>> >>
  >>

\* the length of the example signals of lib.rs
TOTAL_NUM_POINTS == 500
\* cos and sin of 2*pi*m/TOTAL_NUM_POINTS, for m = 0..TOTAL_NUM_POINTS-1
TrigTable500 ==
  <<
     <<10000, 0>>, <<9999, 126>>, <<9997, 251>>, <<9993, 377>>, <<9987, 502>>,
     <<9980, 628>>, <<9972, 753>>, <<9961, 879>>, <<9950, 1004>>, <<9936, 1129>>,
     <<9921, 1253>>, <<9905, 1378>>, <<9887, 1502>>, <<9867, 1626>>, <<9846, 1750>>,
     <<9823, 1874>>, <<9799, 1997>>, <<9773, 2120>>, <<9745, 2243>>, <<9716, 2365>>,
     <<9686, 2487>>, <<9654, 2608>>, <<9620, 2730>>, <<9585, 2850>>, <<9549, 2970>>,
     <<9511, 3090>>, <<9471, 3209>>, <<9430, 3328>>, <<9387, 3446>>, <<9343, 3564>>,
     <<9298, 3681>>, <<9251, 3798>>, <<9202, 3914>>, <<9152, 4029>>, <<9101, 4144>>,
     <<9048, 4258>>, <<8994, 4371>>, <<8938, 4484>>, <<8881, 4596>>, <<8823, 4707>>,
     <<8763, 4818>>, <<8702, 4927>>, <<8639, 5036>>, <<8575, 5144>>, <<8510, 5252>>,
     <<8443, 5358>>, <<8375, 5464>>, <<8306, 5569>>, <<8235, 5673>>, <<8163, 5776>>,
     <<8090, 5878>>, <<8016, 5979>>, <<7940, 6079>>, <<7863, 6179>>, <<7785, 6277>>,
     <<7705, 6374>>, <<7624, 6471>>, <<7543, 6566>>, <<7459, 6660>>, <<7375, 6753>>,
     <<7290, 6845>>, <<7203, 6937>>, <<7115, 7026>>, <<7026, 7115>>, <<6937, 7203>>,
     <<6845, 7290>>, <<6753, 7375>>, <<6660, 7459>>, <<6566, 7543>>, <<6471, 7624>>,
     <<6374, 7705>>, <<6277, 7785>>, <<6179, 7863>>, <<6079, 7940>>, <<5979, 8016>>,
     <<5878, 8090>>, <<5776, 8163>>, <<5673, 8235>>, <<5569, 8306>>, <<5464, 8375>>,
     <<5358, 8443>>, <<5252, 8510>>, <<5144, 8575>>, <<5036, 8639>>, <<4927, 8702>>,
     <<4818, 8763>>, <<4707, 8823>>, <<4596, 8881>>, <<4484, 8938>>, <<4371, 8994>>,
     <<4258, 9048>>, <<4144, 9101>>, <<4029, 9152>>, <<3914, 9202>>, <<3798, 9251>>,
     <<3681, 9298>>, <<3564, 9343>>, <<3446, 9387>>, <<3328, 9430>>, <<3209, 9471>>,
     <<3090, 9511>>, <<2970, 9549>>, <<2850, 9585>>, <<2730, 9620>>, <<2608, 9654>>,
     <<2487, 9686>>, <<2365, 9716>>, <<2243, 9745>>, <<2120, 9773>>, <<1997, 9799>>,
     <<1874, 9823>>, <<1750, 9846>>, <<1626, 9867>>, <<1502, 9887>>, <<1378, 9905>>,
     <<1253, 9921>>, <<1129, 9936>>, <<1004, 9950>>, <<879, 9961>>, <<753, 9972>>,
     <<628, 9980>>, <<502, 9987>>, <<377, 9993>>, <<251, 9997>>, <<126, 9999>>,
     <<0, 10000>>, <<-126, 9999>>, <<-251, 9997>>, <<-377, 9993>>, <<-502, 9987>>,
     <<-628, 9980>>, <<-753, 9972>>, <<-879, 9961>>, <<-1004, 9950>>, <<-1129, 9936>>,
     <<-1253, 9921>>, <<-1378, 9905>>, <<-1502, 9887>>, <<-1626, 9867>>, <<-1750, 9846>>,
     <<-1874, 9823>>, <<-1997, 9799>>, <<-2120, 9773>>, <<-2243, 9745>>, <<-2365, 9716>>,
     <<-2487, 9686>>, <<-2608, 9654>>, <<-2730, 9620>>, <<-2850, 9585>>, <<-2970, 9549>>,
     <<-3090, 9511>>, <<-3209, 9471>>, <<-3328, 9430>>, <<-3446, 9387>>, <<-3564, 9343>>,
     <<-3681, 9298>>, <<-3798, 9251>>, <<-3914, 9202>>, <<-4029, 9152>>, <<-4144, 9101>>,
     <<-4258, 9048>>, <<-4371, 8994>>, <<-4484, 8938>>, <<-4596, 8881>>, <<-4707, 8823>>,
     <<-4818, 8763>>, <<-4927, 8702>>, <<-5036, 8639>>, <<-5144, 8575>>, <<-5252, 8510>>,
     <<-5358, 8443>>, <<-5464, 8375>>, <<-5569, 8306>>, <<-5673, 8235>>, <<-5776, 8163>>,
     <<-5878, 8090>>, <<-5979, 8016>>, <<-6079, 7940>>, <<-6179, 7863>>, <<-6277, 7785>>,
     <<-6374, 7705>>, <<-6471, 7624>>, <<-6566, 7543>>, <<-6660, 7459>>, <<-6753, 7375>>,
     <<-6845, 7290>>, <<-6937, 7203>>, <<-7026, 7115>>, <<-7115, 7026>>, <<-7203, 6937>>,
     <<-7290, 6845>>, <<-7375, 6753>>, <<-7459, 6660>>, <<-7543, 6566>>, <<-7624, 6471>>,
     <<-7705, 6374>>, <<-7785, 6277>>, <<-7863, 6179>>, <<-7940, 6079>>, <<-8016, 5979>>,
     <<-8090, 5878>>, <<-8163, 5776>>, <<-8235, 5673>>, <<-8306, 5569>>, <<-8375, 5464>>,
     <<-8443, 5358>>, <<-8510, 5252>>, <<-8575, 5144>>, <<-8639, 5036>>, <<-8702, 4927>>,
     <<-8763, 4818>>, <<-8823, 4707>>, <<-8881, 4596>>, <<-8938, 4484>>, <<-8994, 4371>>,
     <<-9048, 4258>>, <<-9101, 4144>>, <<-9152, 4029>>, <<-9202, 3914>>, <<-9251, 3798>>,
     <<-9298, 3681>>, <<-9343, 3564>>, <<-9387, 3446>>, <<-9430, 3328>>, <<-9471, 3209>>,
     <<-9511, 3090>>, <<-9549, 2970>>, <<-9585, 2850>>, <<-9620, 2730>>, <<-9654, 2608>>,
     <<-9686, 2487>>, <<-9716, 2365>>, <<-9745, 2243>>, <<-9773, 2120>>, <<-9799, 1997>>,
     <<-9823, 1874>>, <<-9846, 1750>>, <<-9867, 1626>>, <<-9887, 1502>>, <<-9905, 1378>>,
     <<-9921, 1253>>, <<-9936, 1129>>, <<-9950, 1004>>, <<-9961, 879>>, <<-9972, 753>>,
     <<-9980, 628>>, <<-9987, 502>>, <<-9993, 377>>, <<-9997, 251>>, <<-9999, 126>>,
     <<-10000, 0>>, <<-9999, -126>>, <<-9997, -251>>, <<-9993, -377>>, <<-9987, -502>>,
     <<-9980, -628>>, <<-9972, -753>>, <<-9961, -879>>, <<-9950, -1004>>, <<-9936, -1129>>,
     <<-9921, -1253>>, <<-9905, -1378>>, <<-9887, -1502>>, <<-9867, -1626>>, <<-9846, -1750>>,
     <<-9823, -1874>>, <<-9799, -1997>>, <<-9773, -2120>>, <<-9745, -2243>>, <<-9716, -2365>>,
     <<-9686, -2487>>, <<-9654, -2608>>, <<-9620, -2730>>, <<-9585, -2850>>, <<-9549, -2970>>,
     <<-9511, -3090>>, <<-9471, -3209>>, <<-9430, -3328>>, <<-9387, -3446>>, <<-9343, -3564>>,
     <<-9298, -3681>>, <<-9251, -3798>>, <<-9202, -3914>>, <<-9152, -4029>>, <<-9101, -4144>>,
     <<-9048, -4258>>, <<-8994, -4371>>, <<-8938, -4484>>, <<-8881, -4596>>, <<-8823, -4707>>,
     <<-8763, -4818>>, <<-8702, -4927>>, <<-8639, -5036>>, <<-8575, -5144>>, <<-8510, -5252>>,
     <<-8443, -5358>>, <<-8375, -5464>>, <<-8306, -5569>>, <<-8235, -5673>>, <<-8163, -5776>>,
     <<-8090, -5878>>, <<-8016, -5979>>, <<-7940, -6079>>, <<-7863, -6179>>, <<-7785, -6277>>,
     <<-7705, -6374>>, <<-7624, -6471>>, <<-7543, -6566>>, <<-7459, -6660>>, <<-7375, -6753>>,
     <<-7290, -6845>>, <<-7203, -6937>>, <<-7115, -7026>>, <<-7026, -7115>>, <<-6937, -7203>>,
     <<-6845, -7290>>, <<-6753, -7375>>, <<-6660, -7459>>, <<-6566, -7543>>, <<-6471, -7624>>,
     <<-6374, -7705>>, <<-6277, -7785>>, <<-6179, -7863>>, <<-6079, -7940>>, <<-5979, -8016>>,
     <<-5878, -8090>>, <<-5776, -8163>>, <<-5673, -8235>>, <<-5569, -8306>>, <<-5464, -8375>>,
     <<-5358, -8443>>, <<-5252, -8510>>, <<-5144, -8575>>, <<-5036, -8639>>, <<-4927, -8702>>,
     <<-4818, -8763>>, <<-4707, -8823>>, <<-4596, -8881>>, <<-4484, -8938>>, <<-4371, -8994>>,
     <<-4258, -9048>>, <<-4144, -9101>>, <<-4029, -9152>>, <<-3914, -9202>>, <<-3798, -9251>>,
     <<-3681, -9298>>, <<-3564, -9343>>, <<-3446, -9387>>, <<-3328, -9430>>, <<-3209, -9471>>,
     <<-3090, -9511>>, <<-2970, -9549>>, <<-2850, -9585>>, <<-2730, -9620>>, <<-2608, -9654>>,
     <<-2487, -9686>>, <<-2365, -9716>>, <<-2243, -9745>>, <<-2120, -9773>>, <<-1997, -9799>>,
     <<-1874, -9823>>, <<-1750, -9846>>, <<-1626, -9867>>, <<-1502, -9887>>, <<-1378, -9905>>,
     <<-1253, -9921>>, <<-1129, -9936>>, <<-1004, -9950>>, <<-879, -9961>>, <<-753, -9972>>,
     <<-628, -9980>>, <<-502, -9987>>, <<-377, -9993>>, <<-251, -9997>>, <<-126, -9999>>,
     <<0, -10000>>, <<126, -9999>>, <<251, -9997>>, <<377, -9993>>, <<502, -9987>>,
     <<628, -9980>>, <<753, -9972>>, <<879, -9961>>, <<1004, -9950>>, <<1129, -9936>>,
     <<1253, -9921>>, <<1378, -9905>>, <<1502, -9887>>, <<1626, -9867>>, <<1750, -9846>>,
     <<1874, -9823>>, <<1997, -9799>>, <<2120, -9773>>, <<2243, -9745>>, <<2365, -9716>>,
     <<2487, -9686>>, <<2608, -9654>>, <<2730, -9620>>, <<2850, -9585>>, <<2970, -9549>>,
     <<3090, -9511>>, <<3209, -9471>>, <<3328, -9430>>, <<3446, -9387>>, <<3564, -9343>>,
     <<3681, -9298>>, <<3798, -9251>>, <<3914, -9202>>, <<4029, -9152>>, <<4144, -9101>>,
     <<4258, -9048>>, <<4371, -8994>>, <<4484, -8938>>, <<4596, -8881>>, <<4707, -8823>>,
     <<4818, -8763>>, <<4927, -8702>>, <<5036, -8639>>, <<5144, -8575>>, <<5252, -8510>>,
     <<5358, -8443>>, <<5464, -8375>>, <<5569, -8306>>, <<5673, -8235>>, <<5776, -8163>>,
     <<5878, -8090>>, <<5979, -8016>>, <<6079, -7940>>, <<6179, -7863>>, <<6277, -7785>>,
     <<6374, -7705>>, <<6471, -7624>>, <<6566, -7543>>, <<6660, -7459>>, <<6753, -7375>>,
     <<6845, -7290>>, <<6937, -7203>>, <<7026, -7115>>, <<7115, -7026>>, <<7203, -6937>>,
     <<7290, -6845>>, <<7375, -6753>>, <<7459, -6660>>, <<7543, -6566>>, <<7624, -6471>>,
     <<7705, -6374>>, <<7785, -6277>>, <<7863, -6179>>, <<7940, -6079>>, <<8016, -5979>>,
     <<8090, -5878>>, <<8163, -5776>>, <<8235, -5673>>, <<8306, -5569>>, <<8375, -5464>>,
     <<8443, -5358>>, <<8510, -5252>>, <<8575, -5144>>, <<8639, -5036>>, <<8702, -4927>>,
     <<8763, -4818>>, <<8823, -4707>>, <<8881, -4596>>, <<8938, -4484>>, <<8994, -4371>>,
     <<9048, -4258>>, <<9101, -4144>>, <<9152, -4029>>, <<9202, -3914>>, <<9251, -3798>>,
     <<9298, -3681>>, <<9343, -3564>>, <<9387, -3446>>, <<9430, -3328>>, <<9471, -3209>>,
     <<9511, -3090>>, <<9549, -2970>>, <<9585, -2850>>, <<9620, -2730>>, <<9654, -2608>>,
     <<9686, -2487>>, <<9716, -2365>>, <<9745, -2243>>, <<9773, -2120>>, <<9799, -1997>>,
     <<9823, -1874>>, <<9846, -1750>>, <<9867, -1626>>, <<9887, -1502>>, <<9905, -1378>>,
     <<9921, -1253>>, <<9936, -1129>>, <<9950, -1004>>, <<9961, -879>>, <<9972, -753>>,
     <<9980, -628>>, <<9987, -502>>, <<9993, -377>>, <<9997, -251>>, <<9999, -126>>
  >>

\* the number of samples of an animation curve (TOTAL_NUM_POINTS of
\* gen_animation_function in lib.rs)
ANIMATION_NUM_POINTS == 400
\* cos and sin of 2*pi*m/ANIMATION_NUM_POINTS, for m = 0..ANIMATION_NUM_POINTS-1
TrigTable400 ==
  <<
     <<10000, 0>>, <<9999, 157>>, <<9995, 314>>, <<9989, 471>>, <<9980, 628>>,
     <<9969, 785>>, <<9956, 941>>, <<9940, 1097>>, <<9921, 1253>>, <<9900, 1409>>,
     <<9877, 1564>>, <<9851, 1719>>, <<9823, 1874>>, <<9792, 2028>>, <<9759, 2181>>,
     <<9724, 2334>>, <<9686, 2487>>, <<9646, 2639>>, <<9603, 2790>>, <<9558, 2940>>,
     <<9511, 3090>>, <<9461, 3239>>, <<9409, 3387>>, <<9354, 3535>>, <<9298, 3681>>,
     <<9239, 3827>>, <<9178, 3971>>, <<9114, 4115>>, <<9048, 4258>>, <<8980, 4399>>,
     <<8910, 4540>>, <<8838, 4679>>, <<8763, 4818>>, <<8686, 4955>>, <<8607, 5090>>,
     <<8526, 5225>>, <<8443, 5358>>, <<8358, 5490>>, <<8271, 5621>>, <<8181, 5750>>,
     <<8090, 5878>>, <<7997, 6004>>, <<7902, 6129>>, <<7804, 6252>>, <<7705, 6374>>,
     <<7604, 6494>>, <<7501, 6613>>, <<7396, 6730>>, <<7290, 6845>>, <<7181, 6959>>,
     <<7071, 7071>>, <<6959, 7181>>, <<6845, 7290>>, <<6730, 7396>>, <<6613, 7501>>,
     <<6494, 7604>>, <<6374, 7705>>, <<6252, 7804>>, <<6129, 7902>>, <<6004, 7997>>,
     <<5878, 8090>>, <<5750, 8181>>, <<5621, 8271>>, <<5490, 8358>>, <<5358, 8443>>,
     <<5225, 8526>>, <<5090, 8607>>, <<4955, 8686>>, <<4818, 8763>>, <<4679, 8838>>,
     <<4540, 8910>>, <<4399, 8980>>, <<4258, 9048>>, <<4115, 9114>>, <<3971, 9178>>,
     <<3827, 9239>>, <<3681, 9298>>, <<3535, 9354>>, <<3387, 9409>>, <<3239, 9461>>,
     <<3090, 9511>>, <<2940, 9558>>, <<2790, 9603>>, <<2639, 9646>>, <<2487, 9686>>,
     <<2334, 9724>>, <<2181, 9759>>, <<2028, 9792>>, <<1874, 9823>>, <<1719, 9851>>,
     <<1564, 9877>>, <<1409, 9900>>, <<1253, 9921>>, <<1097, 9940>>, <<941, 9956>>,
     <<785, 9969>>, <<628, 9980>>, <<471, 9989>>, <<314, 9995>>, <<157, 9999>>,
     <<0, 10000>>, <<-157, 9999>>, <<-314, 9995>>, <<-471, 9989>>, <<-628, 9980>>,
     <<-785, 9969>>, <<-941, 9956>>, <<-1097, 9940>>, <<-1253, 9921>>, <<-1409, 9900>>,
     <<-1564, 9877>>, <<-1719, 9851>>, <<-1874, 9823>>, <<-2028, 9792>>, <<-2181, 9759>>,
     <<-2334, 9724>>, <<-2487, 9686>>, <<-2639, 9646>>, <<-2790, 9603>>, <<-2940, 9558>>,
     <<-3090, 9511>>, <<-3239, 9461>>, <<-3387, 9409>>, <<-3535, 9354>>, <<-3681, 9298>>,
     <<-3827, 9239>>, <<-3971, 9178>>, <<-4115, 9114>>, <<-4258, 9048>>, <<-4399, 8980>>,
     <<-4540, 8910>>, <<-4679, 8838>>, <<-4818, 8763>>, <<-4955, 8686>>, <<-5090, 8607>>,
     <<-5225, 8526>>, <<-5358, 8443>>, <<-5490, 8358>>, <<-5621, 8271>>, <<-5750, 8181>>,
     <<-5878, 8090>>, <<-6004, 7997>>, <<-6129, 7902>>, <<-6252, 7804>>, <<-6374, 7705>>,
     <<-6494, 7604>>, <<-6613, 7501>>, <<-6730, 7396>>, <<-6845, 7290>>, <<-6959, 7181>>,
     <<-7071, 7071>>, <<-7181, 6959>>, <<-7290, 6845>>, <<-7396, 6730>>, <<-7501, 6613>>,
     <<-7604, 6494>>, <<-7705, 6374>>, <<-7804, 6252>>, <<-7902, 6129>>, <<-7997, 6004>>,
     <<-8090, 5878>>, <<-8181, 5750>>, <<-8271, 5621>>, <<-8358, 5490>>, <<-8443, 5358>>,
     <<-8526, 5225>>, <<-8607, 5090>>, <<-8686, 4955>>, <<-8763, 4818>>, <<-8838, 4679>>,
     <<-8910, 4540>>, <<-8980, 4399>>, <<-9048, 4258>>, <<-9114, 4115>>, <<-9178, 3971>>,
     <<-9239, 3827>>, <<-9298, 3681>>, <<-9354, 3535>>, <<-9409, 3387>>, <<-9461, 3239>>,
     <<-9511, 3090>>, <<-9558, 2940>>, <<-9603, 2790>>, <<-9646, 2639>>, <<-9686, 2487>>,
     <<-9724, 2334>>, <<-9759, 2181>>, <<-9792, 2028>>, <<-9823, 1874>>, <<-9851, 1719>>,
     <<-9877, 1564>>, <<-9900, 1409>>, <<-9921, 1253>>, <<-9940, 1097>>, <<-9956, 941>>,
     <<-9969, 785>>, <<-9980, 628>>, <<-9989, 471>>, <<-9995, 314>>, <<-9999, 157>>,
     <<-10000, 0>>, <<-9999, -157>>, <<-9995, -314>>, <<-9989, -471>>, <<-9980, -628>>,
     <<-9969, -785>>, <<-9956, -941>>, <<-9940, -1097>>, <<-9921, -1253>>, <<-9900, -1409>>,
     <<-9877, -1564>>, <<-9851, -1719>>, <<-9823, -1874>>, <<-9792, -2028>>, <<-9759, -2181>>,
     <<-9724, -2334>>, <<-9686, -2487>>, <<-9646, -2639>>, <<-9603, -2790>>, <<-9558, -2940>>,
     <<-9511, -3090>>, <<-9461, -3239>>, <<-9409, -3387>>, <<-9354, -3535>>, <<-9298, -3681>>,
     <<-9239, -3827>>, <<-9178, -3971>>, <<-9114, -4115>>, <<-9048, -4258>>, <<-8980, -4399>>,
     <<-8910, -4540>>, <<-8838, -4679>>, <<-8763, -4818>>, <<-8686, -4955>>, <<-8607, -5090>>,
     <<-8526, -5225>>, <<-8443, -5358>>, <<-8358, -5490>>, <<-8271, -5621>>, <<-8181, -5750>>,
     <<-8090, -5878>>, <<-7997, -6004>>, <<-7902, -6129>>, <<-7804, -6252>>, <<-7705, -6374>>,
     <<-7604, -6494>>, <<-7501, -6613>>, <<-7396, -6730>>, <<-7290, -6845>>, <<-7181, -6959>>,
     <<-7071, -7071>>, <<-6959, -7181>>, <<-6845, -7290>>, <<-6730, -7396>>, <<-6613, -7501>>,
     <<-6494, -7604>>, <<-6374, -7705>>, <<-6252, -7804>>, <<-6129, -7902>>, <<-6004, -7997>>,
     <<-5878, -8090>>, <<-5750, -8181>>, <<-5621, -8271>>, <<-5490, -8358>>, <<-5358, -8443>>,
     <<-5225, -8526>>, <<-5090, -8607>>, <<-4955, -8686>>, <<-4818, -8763>>, <<-4679, -8838>>,
     <<-4540, -8910>>, <<-4399, -8980>>, <<-4258, -9048>>, <<-4115, -9114>>, <<-3971, -9178>>,
     <<-3827, -9239>>, <<-3681, -9298>>, <<-3535, -9354>>, <<-3387, -9409>>, <<-3239, -9461>>,
     <<-3090, -9511>>, <<-2940, -9558>>, <<-2790, -9603>>, <<-2639, -9646>>, <<-2487, -9686>>,
     <<-2334, -9724>>, <<-2181, -9759>>, <<-2028, -9792>>, <<-1874, -9823>>, <<-1719, -9851>>,
     <<-1564, -9877>>, <<-1409, -9900>>, <<-1253, -9921>>, <<-1097, -9940>>, <<-941, -9956>>,
     <<-785, -9969>>, <<-628, -9980>>, <<-471, -9989>>, <<-314, -9995>>, <<-157, -9999>>,
     <<0, -10000>>, <<157, -9999>>, <<314, -9995>>, <<471, -9989>>, <<628, -9980>>,
     <<785, -9969>>, <<941, -9956>>, <<1097, -9940>>, <<1253, -9921>>, <<1409, -9900>>,
     <<1564, -9877>>, <<1719, -9851>>, <<1874, -9823>>, <<2028, -9792>>, <<2181, -9759>>,
     <<2334, -9724>>, <<2487, -9686>>, <<2639, -9646>>, <<2790, -9603>>, <<2940, -9558>>,
     <<3090, -9511>>, <<3239, -9461>>, <<3387, -9409>>, <<3535, -9354>>, <<3681, -9298>>,
     <<3827, -9239>>, <<3971, -9178>>, <<4115, -9114>>, <<4258, -9048>>, <<4399, -8980>>,
     <<4540, -8910>>, <<4679, -8838>>, <<4818, -8763>>, <<4955, -8686>>, <<5090, -8607>>,
     <<5225, -8526>>, <<5358, -8443>>, <<5490, -8358>>, <<5621, -8271>>, <<5750, -8181>>,
     <<5878, -8090>>, <<6004, -7997>>, <<6129, -7902>>, <<6252, -7804>>, <<6374, -7705>>,
     <<6494, -7604>>, <<6613, -7501>>, <<6730, -7396>>, <<6845, -7290>>, <<6959, -7181>>,
     <<7071, -7071>>, <<7181, -6959>>, <<7290, -6845>>, <<7396, -6730>>, <<7501, -6613>>,
     <<7604, -6494>>, <<7705, -6374>>, <<7804, -6252>>, <<7902, -6129>>, <<7997, -6004>>,
     <<8090, -5878>>, <<8181, -5750>>, <<8271, -5621>>, <<8358, -5490>>, <<8443, -5358>>,
     <<8526, -5225>>, <<8607, -5090>>, <<8686, -4955>>, <<8763, -4818>>, <<8838, -4679>>,
     <<8910, -4540>>, <<8980, -4399>>, <<9048, -4258>>, <<9114, -4115>>, <<9178, -3971>>,
     <<9239, -3827>>, <<9298, -3681>>, <<9354, -3535>>, <<9409, -3387>>, <<9461, -3239>>,
     <<9511, -3090>>, <<9558, -2940>>, <<9603, -2790>>, <<9646, -2639>>, <<9686, -2487>>,
     <<9724, -2334>>, <<9759, -2181>>, <<9792, -2028>>, <<9823, -1874>>, <<9851, -1719>>,
     <<9877, -1564>>, <<9900, -1409>>, <<9921, -1253>>, <<9940, -1097>>, <<9956, -941>>,
     <<9969, -785>>, <<9980, -628>>, <<9989, -471>>, <<9995, -314>>, <<9999, -157>>
  >>

\* Complex32::new(0.0, 2*pi*m/n).exp()
CExp(n, m) ==
    IF n = TOTAL_NUM_POINTS THEN TrigTable500[(m % n) + 1]
    ELSE IF n = ANIMATION_NUM_POINTS THEN TrigTable400[(m % n) + 1]
    ELSE TrigTable[n][(m % n) + 1]

\* sqrt(n) for n = 1..8, for n = TOTAL_NUM_POINTS and for
\* n = ANIMATION_NUM_POINTS
SqrtTable == << 10000, 14142, 17321, 20000, 22361, 24495, 26458, 28284 >>
Sqrt500 == 223607
Sqrt400 == 200000
sqrt(n) ==
    IF n = TOTAL_NUM_POINTS THEN Sqrt500
    ELSE IF n = ANIMATION_NUM_POINTS THEN Sqrt400
    ELSE SqrtTable[n]

---------------------------------------------------------------------------
(* math.rs *)

RECURSIVE DftRange(_, _, _, _)
\* sum over i = from..to-1 of data[i] * exp(omega * k * i), the range halved
\* at each level (the sum does not depend on the grouping)
DftRange(samples, k, from, to) ==
    IF from >= to THEN << 0, 0 >>
    ELSE IF to = from + 1
    THEN CMul(samples[from + 1], CExp(Len(samples), -(k * from)))
    ELSE LET mid == (from + to) \div 2
         IN  CAdd(DftRange(samples, k, from, mid), DftRange(samples, k, mid, to))

\* the inner loop of dft: sum over i = from..N-1 of data[i] * exp(omega * k * i)
DftSum(samples, k, from) == DftRange(samples, k, from, Len(samples))

dft(samples) ==
    LET total_points == Len(samples)
        norm == RoundDiv(Scale * Scale, sqrt(total_points))
    IN  [j \in 1..total_points |-> CScale(DftSum(samples, j - 1, 0), norm)]

\* the terms one k adds to res in idft, for output sample i
IdftTerm(transform, i, k) ==
    LET total_points == Len(transform)
        positive == CMul(transform[k + 1], CExp(total_points, i * k))
    IN  IF k = 0 THEN positive
        ELSE CAdd(positive,
                  CMul(transform[total_points - k + 1],
                       CExp(total_points, i * (total_points - k))))

RECURSIVE IdftSum(_, _, _, _)
IdftSum(transform, i, k, last) ==
    IF k > last THEN << 0, 0 >>
    ELSE CAdd(IdftTerm(transform, i, k), IdftSum(transform, i, k + 1, last))

\* transform[k] with k >= N is an out-of-bounds index: a panic
idft(transform, kmin, kmax) ==
    LET total_points == Len(transform)
        norm == RoundDiv(Scale * Scale, sqrt(total_points))
    IN  IF kmin <= kmax /\ kmax >= total_points
        THEN Panic("index out of bounds")
        ELSE Ok([j \in 1..total_points |->
                    CScale(IdftSum(transform, j - 1, kmin, kmax), norm)])

\* max_frequency as floor(N / 2)
max_frequency_half(fourier, bld) == Ok(Len(fourier.transform) \div 2)

max_frequency(fourier, bld) == usize_sub(Len(fourier.transform) \div 2, 1, bld)

\* from_complex with the finiteness check on the real parts only
from_complex_real_only(samples) ==
    IF Len(samples) = 0 THEN Err("Input vector is empty")
    ELSE IF \E j \in 1..Len(samples) : ~is_finite(samples[j].re)
    THEN Err("Input vector contains invalid values (NaN or Inf)")
    ELSE LET fixed == [j \in 1..Len(samples) |-> ToFixed(samples[j])]
         IN  Ok([transform |-> dft(fixed), original |-> fixed])

from_complex(samples) ==
    IF Len(samples) = 0 THEN Err("Input vector is empty")
    ELSE IF \E j \in 1..Len(samples) :
                ~is_finite(samples[j].re) \/ ~is_finite(samples[j].im)
    THEN Err("Input vector contains invalid values (NaN or Inf)")
    ELSE LET fixed == [j \in 1..Len(samples) |-> ToFixed(samples[j])]
         IN  Ok([transform |-> dft(fixed), original |-> fixed])

\* from_real hands Complex32::new(x, 0.0) for every x to from_complex
from_real(reals) ==
    from_complex([j \in 1..Len(reals) |-> Complex32(reals[j], Fin(0))])

filtered_range(fourier, kmin, kmax, bld) ==
    LET max_k == max_frequency(fourier, bld)
    IN  IF max_k.tag = "Panic" THEN max_k
        ELSE IF kmin > kmax \/ kmax > max_k.val
        THEN Err("Frequency range out of bounds")
        ELSE idft(fourier.transform, kmin, kmax)

\* get_component without the division by sqrt(total_points)
get_component_unscaled(fourier, frequency, time_step) ==
    LET total_points == Len(fourier.transform)
    IN  IF frequency >= total_points THEN Panic("index out of bounds")
        ELSE Ok(CMul(fourier.transform[frequency + 1],
                     CExp(total_points, time_step * frequency)))

get_component(fourier, frequency, time_step) ==
    LET total_points == Len(fourier.transform)
    IN  IF frequency >= total_points THEN Panic("index out of bounds")
        ELSE Ok(CDiv(CMul(fourier.transform[frequency + 1],
                          CExp(total_points, time_step * frequency)),
                     sqrt(total_points)))

size(fourier) == Len(fourier.original)
original(fourier) == fourier.original

rotate_left(s, mid) == [j \in 1..Len(s) |-> s[((j - 1 + mid) % Len(s)) + 1]]

power_spectrum(fourier, shifted, bld) ==
    LET n == Len(fourier.transform)
        freq == [j \in 1..n |-> j - 1]
        powers == [j \in 1..n |-> norm_sqr(fourier.transform[j])]
        mf == max_frequency(fourier, bld)
        max_k == IF mf.tag = "Panic" THEN mf ELSE usize_add(mf.val, 1, bld)
    IN  IF ~shifted THEN Ok([freq |-> freq, powers |-> powers])
        ELSE IF max_k.tag = "Panic" THEN max_k
        ELSE IF max_k.val > n THEN Panic("assertion failed: mid <= self.len()")
        ELSE LET rot == rotate_left(freq, max_k.val)
             IN  Ok([freq |-> [j \in 1..n |-> IF j <= max_k.val THEN rot[j] - n
                                                ELSE rot[j]],
                     powers |-> rotate_left(powers, max_k.val)])

---------------------------------------------------------------------------
(* animation.rs: the controller *)

NoFrame == [idx |-> -1, overflowed |-> FALSE, checked |-> FALSE, drawn |-> FALSE,
            reported |-> FALSE, panicked |-> FALSE, curve |-> << >>, arrows |-> << >>]
NoQuery == [op |-> "none", args |-> << >>, res |-> Ok(0)]

\* check_frequency_range: Ok(TRUE), Ok(FALSE) after console::error, or a panic
check_frequency_range(fourier, kmin, kmax, bld) ==
    LET max_freq == max_frequency(fourier, bld)
    IN  IF max_freq.tag = "Panic" THEN max_freq
        ELSE IF kmin > kmax THEN Ok(FALSE)
        ELSE IF kmax > max_freq.val THEN Ok(FALSE)
        ELSE Ok(TRUE)

\* plot_reconstructed_curve: the filtered_range query (zeros on Err) and the
\* points handed to stroke_curve, none when the function returns early.
\* recon_complex has one sample for each sample of the engine.
plot_reconstructed_curve(fourier, kmin, kmax, current, bld) ==
    LET recon == filtered_range(fourier, kmin, kmax, bld)
        recon_complex == IF recon.tag = "Err"
                         THEN [j \in 1..size(fourier) |-> << 0, 0 >>]
                         ELSE recon.val
        len == size(fourier)
        end_point == IF current + 1 < len THEN current + 1 ELSE len
    IN  IF recon.tag = "Panic" THEN recon
        ELSE IF current < 2 \/ len < 2 THEN Ok(<< >>)
        ELSE Ok([i \in 1..end_point |-> recon_complex[i]])

\* the chain with the partner N - k drawn before its positive frequency k
ChainFrequenciesPartnerFirst(fourier, kmin, kmax) ==
    LET total_points == size(fourier)
        RECURSIVE Chain(_)
        Chain(k) ==
            IF k > kmax THEN << >>
            ELSE IF k = 0 THEN << 0 >> \o Chain(k + 1)
            ELSE << total_points - k, k >> \o Chain(k + 1)
    IN  Chain(kmin)

\* plot_fourier_components: the get_component queries of the chain, in order
ChainFrequencies(fourier, kmin, kmax) ==
    LET total_points == size(fourier)
        RECURSIVE Chain(_)
        Chain(k) ==
            IF k > kmax THEN << >>
            ELSE IF k = 0 THEN << 0 >> \o Chain(k + 1)
            ELSE << k, total_points - k >> \o Chain(k + 1)
    IN  Chain(kmin)

\* the arrows plot_fourier_components hands to draw_arrow, in order: each from
\* current_complex to next_complex (plane coordinates, before the affine map
\* viewport_to_canvas)
plot_fourier_components(fourier, kmin, kmax, current) ==
    LET chain == ChainFrequencies(fourier, kmin, kmax)
        RECURSIVE Draw(_, _)
        Draw(j, current_complex) ==
            IF j > Len(chain) THEN << >>
            ELSE LET component == get_component(fourier, chain[j], current).val
                     next_complex == CAdd(current_complex, component)
                 IN  << [start |-> current_complex, end |-> next_complex] >>
                     \o Draw(j + 1, next_complex)
    IN  IF \E j \in 1..Len(chain) :
               get_component(fourier, chain[j], current).tag = "Panic"
        THEN Panic("index out of bounds")
        ELSE Ok(Draw(1, << 0, 0 >>))

\* the tip of the arrow chain: current_complex after the loop of
\* plot_fourier_components, the running sum of the components drawn
ChainTip(fourier, kmin, kmax, current) ==
    LET chain == ChainFrequencies(fourier, kmin, kmax)
        RECURSIVE Run(_, _)
        Run(j, current_complex) ==
            IF j > Len(chain) THEN Ok(current_complex)
            ELSE LET component == get_component(fourier, chain[j], current)
                 IN  IF component.tag = "Panic" THEN component
                     ELSE Run(j + 1, CAdd(current_complex, component.val))
    IN  Run(1, << 0, 0 >>)

\* plot_all: what one rendered (or skipped) frame does
plot_all(fourier, kmin, kmax, current, bld) ==
    LET valid == check_frequency_range(fourier, kmin, kmax, bld)
        curve == plot_reconstructed_curve(fourier, kmin, kmax, current, bld)
        arrows == plot_fourier_components(fourier, kmin, kmax, current)
    IN  IF valid.tag = "Panic"
        THEN [NoFrame EXCEPT !.idx = current, !.panicked = TRUE]
        ELSE IF ~valid.val
        THEN [NoFrame EXCEPT !.idx = current, !.checked = TRUE, !.reported = TRUE]
        ELSE IF curve.tag = "Panic"
        THEN [NoFrame EXCEPT !.idx = current, !.checked = TRUE, !.drawn = TRUE,
                             !.panicked = TRUE]
        ELSE IF arrows.tag = "Panic"
        THEN [NoFrame EXCEPT !.idx = current, !.checked = TRUE, !.drawn = TRUE,
                             !.panicked = TRUE, !.curve = curve.val]
        ELSE [NoFrame EXCEPT !.idx = current, !.checked = TRUE, !.drawn = TRUE,
                             !.curve = curve.val, !.arrows = arrows.val]

\* the position after `self.current_point += self.point_speed * elapsed` and the
\* wrap below zero, in half samples (elapsed is given in half time units)
\* the advance with a wrap that keeps the overshoot below zero
AdvanceKeepingOvershoot(position, speed, elapsed, n) ==
    LET advanced == position + speed * elapsed
    IN  IF advanced < 0 THEN 2 * n + advanced ELSE advanced

Advance(position, speed, elapsed, n) ==
    LET advanced == position + speed * elapsed
    IN  IF advanced < 0 THEN 2 * n ELSE advanced

\* (self.fourier.size() + self.current_point as usize) % self.fourier.size()
StepIndex(position, n, bld) ==
    LET sum == usize_add(n, f64_as_usize(position), bld)
    IN  IF sum.tag = "Panic" THEN sum ELSE Ok(sum.val % n)

\* whether that addition leaves the range of usize
StepOverflows(position, n) == n + f64_as_usize(position) > UsizeMax

\* ANIMATION holds None and has dropped no controller
NoAnimation == [some |-> FALSE, dropped_running |-> 0]
\* EXAMPLE_CACHE holding None
NoCache == [some |-> FALSE, kind |-> 0]
\* nothing built from the examples
NoPrepared == << >>
\* past: no speed control has been used (ops, speeds), no toggle has found a
\* Playing controller and left it Playing (toggles), and the last handler has
\* not installed a new controller (installed)
NoPast == [ops |-> << >>, speeds |-> << >>, toggles |-> 0, installed |-> FALSE]

\* the record of the ticks executed since start() was called on a Stopped
\* controller: the sum of speed * elapsed over them (half samples), and the
\* elapsed time and speed they all shared; NoRun when there is no such run, or
\* when its ticks differed in elapsed time or speed, or ran in reverse
NoRun == [total |-> -1, dt |-> 0, speed |-> 0]
NewRun == [total |-> 0, dt |-> 0, speed |-> 0]
RunAfter(r, speed, elapsed) ==
    IF r.total < 0 \/ speed <= 0 THEN NoRun
    ELSE IF r.dt = 0 THEN [total |-> speed * elapsed, dt |-> elapsed, speed |-> speed]
    ELSE IF r.dt = elapsed /\ r.speed = speed
    THEN [r EXCEPT !.total = r.total + speed * elapsed]
    ELSE NoRun

Alive == engine.tag = "Ok" /\ ~frame.panicked

Start ==
    /\ Alive
    /\ is_paused' = FALSE
    /\ is_stopped' = FALSE
    /\ loop_running' = TRUE
    /\ lastOp' = "start"
    /\ lastArg' = 0
    /\ run' = IF is_stopped THEN NewRun ELSE run
    /\ frame' = NoFrame
    /\ UNCHANGED << engineVars, query, k_min, k_max, current_point, point_speed >>
    /\ UNCHANGED appVars

\* stop without the reset of current_point
StopKeepsPosition ==
    /\ Alive
    /\ is_stopped' = TRUE
    /\ loop_running' = FALSE
    /\ lastOp' = "stop"
    /\ lastArg' = 0
    /\ run' = NoRun
    /\ frame' = NoFrame
    /\ UNCHANGED << engineVars, query, k_min, k_max, current_point, point_speed,
                    is_paused >>
    /\ UNCHANGED appVars

Stop ==
    /\ Alive
    /\ is_stopped' = TRUE
    /\ current_point' = 0
    /\ loop_running' = FALSE
    /\ lastOp' = "stop"
    /\ lastArg' = 0
    /\ run' = NoRun
    /\ frame' = NoFrame
    /\ UNCHANGED << engineVars, query, k_min, k_max, point_speed, is_paused >>
    /\ UNCHANGED appVars

\* step that validates the band before it advances: a tick whose band is
\* invalid reports and leaves the position where it was
StepCheckingBandFirst(elapsed) ==
    /\ Alive
    /\ is_paused \/ current_point <= PosCap
    /\ lastOp' = "step"
    /\ lastArg' = IF is_paused THEN 0 ELSE elapsed
    /\ IF is_paused
       THEN /\ frame' = NoFrame
            /\ UNCHANGED << current_point, run >>
       ELSE LET n == size(engine.val)
                valid == check_frequency_range(engine.val, k_min, k_max, build)
                rejected == valid.tag = "Ok" /\ ~valid.val
                position == IF rejected THEN current_point
                            ELSE Advance(current_point, point_speed, elapsed, n)
                current == StepIndex(position, n, build)
            IN  /\ current_point' = position
                /\ run' = RunAfter(run, point_speed, elapsed)
                /\ frame' = IF current.tag = "Panic"
                            THEN [NoFrame EXCEPT !.overflowed = TRUE, !.panicked = TRUE]
                            ELSE [plot_all(engine.val, k_min, k_max, current.val, build)
                                    EXCEPT !.overflowed = StepOverflows(position, n)]
    /\ UNCHANGED << engineVars, query, k_min, k_max, point_speed, is_paused,
                    is_stopped, loop_running >>
    /\ UNCHANGED appVars

Step(elapsed) ==
    /\ Alive
    /\ is_paused \/ current_point <= PosCap
    /\ lastOp' = "step"
    /\ lastArg' = IF is_paused THEN 0 ELSE elapsed
    /\ IF is_paused
       THEN /\ frame' = NoFrame
            /\ UNCHANGED << current_point, run >>
       ELSE LET n == size(engine.val)
                position == Advance(current_point, point_speed, elapsed, n)
                current == StepIndex(position, n, build)
            IN  /\ current_point' = position
                /\ run' = RunAfter(run, point_speed, elapsed)
                /\ frame' = IF current.tag = "Panic"
                            THEN [NoFrame EXCEPT !.overflowed = TRUE, !.panicked = TRUE]
                            ELSE [plot_all(engine.val, k_min, k_max, current.val, build)
                                    EXCEPT !.overflowed = StepOverflows(position, n)]
    /\ UNCHANGED << engineVars, query, k_min, k_max, point_speed, is_paused,
                    is_stopped, loop_running >>
    /\ UNCHANGED appVars

\* play that also asks the canvas to start its animation loop
PlayStartingLoop ==
    /\ Alive
    /\ is_paused' = FALSE
    /\ loop_running' = TRUE
    /\ lastOp' = "play"
    /\ lastArg' = 0
    /\ run' = IF is_paused THEN NoRun ELSE run
    /\ frame' = NoFrame
    /\ UNCHANGED << engineVars, query, k_min, k_max, current_point, point_speed,
                    is_stopped >>
    /\ UNCHANGED appVars

Play ==
    /\ Alive
    /\ is_paused' = FALSE
    /\ lastOp' = "play"
    /\ lastArg' = 0
    /\ run' = IF is_paused THEN NoRun ELSE run
    /\ frame' = NoFrame
    /\ UNCHANGED << engineVars, query, k_min, k_max, current_point, point_speed,
                    is_stopped, loop_running >>
    /\ UNCHANGED appVars

Pause ==
    /\ Alive
    /\ is_paused' = TRUE
    /\ lastOp' = "pause"
    /\ lastArg' = 0
    /\ run' = NoRun
    /\ frame' = NoFrame
    /\ UNCHANGED << engineVars, query, k_min, k_max, current_point, point_speed,
                    is_stopped, loop_running >>
    /\ UNCHANGED appVars

\* set_speed that also resumes a paused animation
SetSpeedResuming(speed) ==
    /\ Alive
    /\ point_speed' = speed
    /\ is_paused' = FALSE
    /\ lastOp' = "set_speed"
    /\ lastArg' = speed
    /\ run' = run
    /\ frame' = NoFrame
    /\ UNCHANGED << engineVars, query, k_min, k_max, current_point, is_stopped,
                    loop_running >>
    /\ UNCHANGED appVars

SetSpeed(speed) ==
    /\ Alive
    /\ point_speed' = speed
    /\ lastOp' = "set_speed"
    /\ lastArg' = speed
    /\ run' = run
    /\ frame' = NoFrame
    /\ UNCHANGED << engineVars, query, k_min, k_max, current_point, is_paused,
                    is_stopped, loop_running >>
    /\ UNCHANGED appVars

---------------------------------------------------------------------------
(* Inputs *)

\* speeds given to set_speed: reverse, unit, default, and one that carries the
\* position beyond the machine word in a single tick
HugeSpeed == 2 * UsizeModulus
Speeds == {-1, 1, DEFAULT_SPEED, HugeSpeed}
\* elapsed times given to step, in half time units (0.5 and 1.0)
ElapsedHalves == {1, 2}
\* the bands (k_min, k_max) the page gives: one valid, one with k_min > k_max
BandInputs == { << 0, 1 >>, << 1, 0 >> }

\* the bands plot_example is called with: k_min up to MaxBandK, k_max up to
\* MaxBandK or one more than half the samples of an example
MaxBandK == 5
ExampleBands ==
    { << kmin, kmax >> : kmin \in 0..MaxBandK,
                         kmax \in (0..MaxBandK) \cup { TOTAL_NUM_POINTS \div 2 + 1 } }

\* the curve an animation of n points is built from
AnimationData(n) ==
    [j \in 1..n |-> Complex32(Fin(IF j = 1 THEN 1 ELSE 0), Fin(IF j = 2 THEN 1 ELSE 0))]

FiniteSample == { Complex32(Fin(1), Fin(0)), Complex32(Fin(-1), Fin(1)) }
BadSample == { Complex32(NaN, Fin(0)), Complex32(Fin(1), NaN),
               Complex32(Inf(1), Fin(0)), Complex32(Fin(0), Inf(-1)) }
FiniteSignals == UNION { [1..n -> FiniteSample] : n \in 1..MaxLen }
\* a finite signal with one sample replaced by a non-finite one
PoisonedSignals ==
    { [s EXCEPT ![j] = b] : s \in FiniteSignals, j \in 1..MaxLen, b \in BadSample }
\* the step that also rises at sample 150
StepFunctionFrom150(i) == IF i >= 150 /\ i < 350 THEN 1 ELSE 0

\* lib.rs generate_cache, kind 0: the step function over TOTAL_NUM_POINTS
\* samples (sample i is 1 for 150 < i < 350 and 0 elsewhere), as the real
\* vector x and as the complex signal with imaginary parts 0
StepFunction(i) == IF i > 150 /\ i < 350 THEN 1 ELSE 0
ExampleReals == [j \in 1..TOTAL_NUM_POINTS |-> Fin(StepFunction(j - 1))]
ExampleSignal == [j \in 1..TOTAL_NUM_POINTS |-> Complex32(ExampleReals[j], Fin(0))]

\* lib.rs generate_cache, the generator of a kind at sample i, where
\* ti = i / 100: the step function, sin(2 pi ti) (a period of 100 samples,
\* read from the table of TOTAL_NUM_POINTS directions), the sign of that sine
\* (1.0 where it is >= 0.0) and, for every other kind,
\* 2 |2 (ti - floor(ti + 0.25) + 0.25)| - 1
generator(kind, i) ==
    CASE kind = 0 -> Fin(StepFunction(i))
      [] kind = 1 -> FinFixed(TrigTable500[((5 * i) % TOTAL_NUM_POINTS) + 1][2])
      [] kind = 2 -> Fin(IF i % 100 < 50 THEN 1 ELSE -1)
      [] OTHER ->
           LET ramp == 100 * i - Scale * ((i + 25) \div 100) + Scale \div 4
               doubled == IF ramp < 0 THEN -(2 * ramp) ELSE 2 * ramp
           IN  FinFixed(2 * doubled - Scale)

\* the vector x generate_cache fills for a kind
ExampleX(kind) == [j \in 1..TOTAL_NUM_POINTS |-> generator(kind, j - 1)]

\* lib.rs gen_animation_function, example 0, the epitrochoid: x[i] and y[i] for
\* i = 0..ANIMATION_NUM_POINTS-1, in units of 1/Scale
EpitrochoidX ==
  <<
     80000, 79903, 79614, 79135, 78470, 77624, 76604, 75419, 74078, 72593,
     70975, 69238, 67396, 65464, 63457, 61393, 59286, 57154, 55015, 52884,
     50779, 48715, 46709, 44776, 42930, 41185, 39553, 38045, 36672, 35442,
     34364, 33442, 32681, 32085, 31654, 31388, 31285, 31343, 31555, 31916,
     32417, 33049, 33803, 34665, 35624, 36665, 37775, 38937, 40136, 41355,
     42579, 43790, 44972, 46108, 47182, 48179, 49082, 49879, 50555, 51099,
     51498, 51742, 51823, 51733, 51467, 51018, 50386, 49568, 48564, 47376,
     46008, 44465, 42753, 40879, 38853, 36687, 34390, 31977, 29461, 26857,
     24181, 21448, 18675, 15879, 13078, 10287, 7524, 4806, 2149, -432,
     -2921, -5304, -7569, -9703, -11695, -13536, -15217, -16731, -18074, -19241,
     -20231, -21042, -21675, -22134, -22422, -22544, -22509, -22323, -21998, -21545,
     -20974, -20300, -19537, -18699, -17802, -16862, -15895, -14918, -13948, -13001,
     -12093, -11241, -10459, -9763, -9165, -8680, -8319, -8093, -8011, -8081,
     -8311, -8705, -9267, -10000, -10904, -11977, -13218, -14623, -16185, -17897,
     -19751, -21738, -23845, -26060, -28371, -30762, -33220, -35727, -38268, -40826,
     -43385, -45926, -48434, -50890, -53280, -55587, -57796, -59892, -61863, -63694,
     -65375, -66896, -68248, -69423, -70416, -71222, -71837, -72262, -72496, -72540,
     -72399, -72078, -71582, -70920, -70101, -69135, -68035, -66814, -65484, -64061,
     -62560, -60996, -59388, -57750, -56100, -54454, -52829, -51242, -49708, -48243,
     -46860, -45574, -44397, -43341, -42415, -41630, -40993, -40509, -40184, -40020,
     -40020, -40184, -40509, -40993, -41630, -42415, -43341, -44397, -45574, -46860,
     -48243, -49708, -51242, -52829, -54454, -56100, -57750, -59388, -60996, -62560,
     -64061, -65484, -66814, -68035, -69135, -70101, -70920, -71582, -72078, -72399,
     -72540, -72496, -72262, -71837, -71222, -70416, -69423, -68248, -66896, -65375,
     -63694, -61863, -59892, -57796, -55587, -53280, -50890, -48434, -45926, -43385,
     -40826, -38268, -35727, -33220, -30762, -28371, -26060, -23845, -21737, -19751,
     -17897, -16185, -14623, -13218, -11977, -10904, -10000, -9267, -8705, -8311,
     -8081, -8011, -8093, -8319, -8680, -9165, -9763, -10459, -11241, -12093,
     -13001, -13948, -14918, -15895, -16862, -17802, -18699, -19537, -20300, -20974,
     -21545, -21998, -22323, -22509, -22544, -22422, -22134, -21675, -21042, -20231,
     -19241, -18074, -16731, -15217, -13536, -11695, -9703, -7569, -5304, -2921,
     -432, 2149, 4806, 7524, 10287, 13078, 15879, 18675, 21448, 24181,
     26858, 29461, 31977, 34390, 36687, 38853, 40879, 42752, 44465, 46008,
     47376, 48564, 49568, 50386, 51018, 51467, 51733, 51823, 51742, 51498,
     51099, 50555, 49879, 49082, 48179, 47182, 46108, 44972, 43790, 42579,
     41355, 40136, 38937, 37775, 36665, 35624, 34665, 33803, 33049, 32417,
     31916, 31555, 31343, 31285, 31388, 31654, 32085, 32681, 33442, 34364,
     35442, 36672, 38045, 39553, 41185, 42930, 44776, 46709, 48715, 50779,
     52884, 55015, 57154, 59286, 61393, 63457, 65464, 67396, 69238, 70975,
     72593, 74078, 75419, 76604, 77624, 78470, 79135, 79614, 79903, 80000
  >>
EpitrochoidY ==
  <<
     0, 2832, 5646, 8427, 11157, 13820, 16401, 18885, 21257, 23505,
     25617, 27583, 29391, 31036, 32509, 33806, 34923, 35859, 36612, 37184,
     37578, 37797, 37849, 37740, 37478, 37074, 36539, 35885, 35126, 34275,
     33348, 32360, 31328, 30268, 29196, 28128, 27083, 26075, 25122, 24237,
     23435, 22732, 22138, 21667, 21328, 21132, 21086, 21196, 21468, 21906,
     22511, 23284, 24224, 25328, 26591, 28008, 29572, 31273, 33103, 35049,
     37099, 39240, 41457, 43736, 46060, 48413, 50779, 53141, 55481, 57782,
     60029, 62205, 64294, 66280, 68150, 69891, 71489, 72934, 74216, 75325,
     76256, 77002, 77558, 77923, 78096, 78076, 77866, 77469, 76891, 76139,
     75221, 74146, 72925, 71569, 70093, 68510, 66834, 65082, 63269, 61412,
     59527, 57632, 55742, 53876, 52049, 50276, 48574, 46956, 45436, 44027,
     42740, 41585, 40572, 39707, 38997, 38447, 38059, 37835, 37775, 37876,
     38137, 38551, 39113, 39815, 40648, 41601, 42662, 43820, 45059, 46367,
     47727, 49124, 50541, 51962, 53370, 54748, 56080, 57350, 58542, 59640,
     60630, 61499, 62233, 62822, 63254, 63522, 63616, 63531, 63263, 62807,
     62163, 61329, 60309, 59104, 57721, 56164, 54441, 52562, 50537, 48378,
     46097, 43707, 41225, 38664, 36042, 33374, 30677, 27968, 25265, 22584,
     19942, 17355, 14840, 12410, 10080, 7864, 5774, 3820, 2013, 360,
     -1130, -2454, -3605, -4584, -5387, -6017, -6475, -6766, -6894, -6868,
     -6694, -6383, -5946, -5394, -4742, -4001, -3189, -2319, -1408, -472,
     472, 1408, 2319, 3189, 4001, 4742, 5394, 5946, 6383, 6694,
     6868, 6894, 6766, 6475, 6017, 5387, 4584, 3605, 2454, 1130,
     -360, -2013, -3820, -5774, -7864, -10080, -12410, -14840, -17355, -19942,
     -22584, -25265, -27968, -30677, -33374, -36042, -38664, -41225, -43707, -46097,
     -48378, -50537, -52562, -54441, -56164, -57721, -59104, -60309, -61329, -62163,
     -62807, -63263, -63531, -63616, -63522, -63254, -62822, -62233, -61499, -60630,
     -59640, -58542, -57350, -56080, -54748, -53370, -51962, -50541, -49124, -47727,
     -46367, -45059, -43820, -42662, -41601, -40648, -39815, -39113, -38551, -38137,
     -37876, -37775, -37835, -38059, -38447, -38997, -39707, -40572, -41585, -42740,
     -44027, -45436, -46956, -48574, -50276, -52049, -53876, -55743, -57632, -59527,
     -61412, -63269, -65082, -66834, -68510, -70093, -71569, -72925, -74146, -75221,
     -76139, -76891, -77469, -77866, -78076, -78096, -77923, -77558, -77002, -76256,
     -75325, -74216, -72934, -71489, -69891, -68150, -66280, -64294, -62205, -60029,
     -57782, -55481, -53141, -50779, -48413, -46060, -43736, -41457, -39240, -37099,
     -35049, -33103, -31273, -29572, -28008, -26591, -25328, -24224, -23284, -22511,
     -21906, -21468, -21196, -21086, -21132, -21328, -21667, -22138, -22732, -23435,
     -24237, -25122, -26075, -27083, -28128, -29196, -30268, -31328, -32360, -33348,
     -34275, -35126, -35885, -36539, -37074, -37478, -37740, -37849, -37797, -37578,
     -37184, -36612, -35859, -34923, -33806, -32509, -31036, -29391, -27583, -25617,
     -23505, -21257, -18885, -16401, -13820, -11157, -8427, -5646, -2832, 0
  >>
\* lib.rs gen_animation_function, example 1, the rose curve: x[i] and y[i] for
\* i = 0..ANIMATION_NUM_POINTS-1, in units of 1/Scale
RoseX ==
  <<
     45000, 44930, 44722, 44377, 43898, 43290, 42558, 41709, 40750, 39691,
     38539, 37307, 36003, 34640, 33228, 31779, 30305, 28817, 27327, 25845,
     24382, 22947, 21550, 20200, 18903, 17666, 16496, 15395, 14369, 13419,
     12547, 11752, 11035, 10394, 9826, 9327, 8893, 8520, 8201, 7932,
     7704, 7513, 7351, 7211, 7087, 6971, 6858, 6742, 6616, 6476,
     6318, 6137, 5931, 5696, 5432, 5138, 4812, 4456, 4070, 3657,
     3219, 2759, 2280, 1786, 1281, 770, 256, -255, -759, -1253,
     -1730, -2189, -2625, -3034, -3416, -3767, -4086, -4373, -4626, -4846,
     -5035, -5194, -5325, -5432, -5516, -5583, -5636, -5680, -5719, -5759,
     -5805, -5861, -5933, -6026, -6144, -6291, -6472, -6690, -6947, -7247,
     -7590, -7978, -8411, -8889, -9410, -9973, -10576, -11214, -11884, -12582,
     -13303, -14041, -14790, -15544, -16296, -17040, -17769, -18477, -19155, -19799,
     -20401, -20956, -21459, -21903, -22285, -22601, -22847, -23021, -23121, -23147,
     -23096, -22971, -22772, -22500, -22159, -21751, -21280, -20751, -20168, -19536,
     -18861, -18149, -17405, -16636, -15848, -15047, -14239, -13429, -12624, -11829,
     -11048, -10287, -9549, -8838, -8157, -7510, -6897, -6321, -5782, -5282,
     -4820, -4396, -4009, -3658, -3341, -3057, -2804, -2579, -2379, -2203,
     -2047, -1910, -1788, -1678, -1580, -1490, -1407, -1328, -1252, -1179,
     -1106, -1033, -960, -886, -812, -737, -661, -586, -512, -439,
     -370, -303, -241, -185, -135, -91, -56, -29, -10, -1,
     -1, -10, -29, -56, -91, -135, -185, -241, -303, -370,
     -439, -512, -586, -661, -737, -812, -886, -960, -1033, -1106,
     -1179, -1252, -1328, -1407, -1490, -1580, -1678, -1788, -1910, -2047,
     -2203, -2379, -2579, -2804, -3058, -3341, -3658, -4009, -4396, -4820,
     -5282, -5782, -6321, -6897, -7510, -8157, -8838, -9549, -10287, -11048,
     -11829, -12624, -13429, -14239, -15047, -15848, -16636, -17405, -18149, -18861,
     -19536, -20168, -20751, -21280, -21751, -22159, -22500, -22772, -22971, -23096,
     -23147, -23121, -23021, -22847, -22601, -22285, -21903, -21459, -20956, -20401,
     -19799, -19155, -18477, -17769, -17040, -16296, -15544, -14790, -14041, -13303,
     -12582, -11884, -11214, -10576, -9973, -9410, -8889, -8411, -7978, -7590,
     -7247, -6947, -6690, -6472, -6291, -6144, -6026, -5933, -5861, -5805,
     -5759, -5719, -5680, -5636, -5583, -5516, -5432, -5325, -5194, -5035,
     -4846, -4626, -4373, -4086, -3767, -3416, -3034, -2625, -2189, -1730,
     -1252, -759, -255, 256, 770, 1281, 1786, 2280, 2759, 3219,
     3657, 4070, 4456, 4812, 5138, 5432, 5696, 5931, 6137, 6318,
     6476, 6616, 6742, 6858, 6971, 7087, 7211, 7351, 7513, 7704,
     7932, 8201, 8520, 8893, 9327, 9826, 10394, 11035, 11752, 12547,
     13419, 14369, 15395, 16496, 17666, 18903, 20200, 21550, 22947, 24382,
     25845, 27327, 28817, 30305, 31779, 33228, 34640, 36003, 37307, 38540,
     39691, 40750, 41709, 42558, 43290, 43898, 44377, 44722, 44930, 45000
  >>
RoseY ==
  <<
     0, 354, 704, 1048, 1383, 1705, 2012, 2301, 2570, 2817,
     3041, 3239, 3412, 3558, 3678, 3771, 3838, 3880, 3899, 3895,
     3872, 3829, 3771, 3699, 3615, 3523, 3425, 3323, 3220, 3118,
     3020, 2927, 2841, 2763, 2695, 2637, 2590, 2555, 2530, 2515,
     2510, 2513, 2524, 2539, 2558, 2579, 2599, 2615, 2627, 2630,
     2624, 2606, 2574, 2525, 2460, 2375, 2271, 2146, 2000, 1833,
     1645, 1438, 1211, 967, 707, 432, 147, -149, -450, -756,
     -1064, -1369, -1671, -1966, -2251, -2525, -2786, -3032, -3262, -3475,
     -3671, -3849, -4012, -4159, -4293, -4416, -4531, -4640, -4748, -4858,
     -4976, -5104, -5250, -5417, -5611, -5838, -6101, -6406, -6758, -7162,
     -7620, -8137, -8714, -9356, -10062, -10834, -11671, -12573, -13538, -14563,
     -15644, -16778, -17958, -19179, -20435, -21716, -23016, -24326, -25636, -26938,
     -28220, -29474, -30689, -31856, -32964, -34005, -34970, -35850, -36637, -37325,
     -37907, -38378, -38734, -38971, -39088, -39082, -38955, -38708, -38342, -37862,
     -37271, -36576, -35782, -34897, -33928, -32886, -31778, -30615, -29407, -28164,
     -26897, -25615, -24330, -23051, -21787, -20548, -19343, -18178, -17061, -15998,
     -14994, -14054, -13180, -12376, -11641, -10977, -10383, -9857, -9396, -8997,
     -8655, -8367, -8126, -7927, -7763, -7628, -7515, -7417, -7327, -7239,
     -7146, -7043, -6924, -6784, -6618, -6423, -6196, -5934, -5637, -5303,
     -4932, -4525, -4084, -3611, -3108, -2580, -2030, -1463, -883, -295,
     295, 883, 1463, 2030, 2580, 3108, 3611, 4084, 4525, 4932,
     5303, 5637, 5934, 6196, 6423, 6618, 6784, 6924, 7043, 7146,
     7239, 7327, 7417, 7515, 7628, 7763, 7927, 8126, 8367, 8656,
     8997, 9396, 9857, 10383, 10977, 11641, 12376, 13180, 14054, 14994,
     15998, 17061, 18178, 19343, 20548, 21787, 23051, 24330, 25615, 26897,
     28164, 29407, 30615, 31778, 32886, 33928, 34897, 35782, 36576, 37271,
     37862, 38342, 38708, 38955, 39082, 39088, 38971, 38734, 38378, 37907,
     37325, 36637, 35850, 34970, 34005, 32964, 31856, 30689, 29474, 28220,
     26938, 25636, 24326, 23016, 21716, 20435, 19179, 17958, 16778, 15644,
     14563, 13538, 12573, 11671, 10834, 10062, 9356, 8714, 8137, 7620,
     7162, 6758, 6406, 6101, 5838, 5611, 5417, 5250, 5104, 4976,
     4858, 4748, 4640, 4531, 4416, 4293, 4159, 4012, 3849, 3671,
     3475, 3262, 3032, 2786, 2525, 2251, 1966, 1671, 1369, 1064,
     756, 450, 149, -147, -432, -707, -967, -1211, -1438, -1645,
     -1833, -2000, -2146, -2271, -2375, -2460, -2525, -2574, -2606, -2624,
     -2630, -2627, -2615, -2599, -2579, -2558, -2539, -2524, -2513, -2510,
     -2515, -2530, -2555, -2590, -2637, -2695, -2763, -2841, -2927, -3020,
     -3118, -3220, -3323, -3425, -3523, -3615, -3699, -3771, -3829, -3872,
     -3895, -3899, -3880, -3838, -3771, -3678, -3558, -3412, -3239, -3041,
     -2817, -2570, -2301, -2012, -1705, -1383, -1048, -704, -354, 0
  >>
\* lib.rs gen_animation_function, example 2, the Lissajous curve: x[i] and y[i] for
\* i = 0..ANIMATION_NUM_POINTS-1, in units of 1/Scale
LissajousX ==
  <<
     0, 4434, 8829, 13145, 17345, 21393, 25254, 28899, 32297, 35426,
     38264, 40794, 43004, 44886, 46436, 47654, 48546, 49120, 49389, 49368,
     49078, 48540, 47778, 46819, 45689, 44417, 43031, 41560, 40029, 38467,
     36897, 35342, 33823, 32357, 30958, 29639, 28409, 27273, 26234, 25292,
     24442, 23680, 22997, 22383, 21826, 21312, 20827, 20356, 19883, 19394,
     18874, 18310, 17689, 17001, 16236, 15389, 14453, 13427, 12311, 11106,
     9818, 8451, 7016, 5521, 3979, 2401, 803, -803, -2401, -3979,
     -5521, -7016, -8451, -9818, -11106, -12311, -13427, -14453, -15389, -16236,
     -17001, -17689, -18310, -18874, -19394, -19883, -20356, -20827, -21312, -21826,
     -22383, -22997, -23680, -24442, -25292, -26234, -27273, -28409, -29639, -30958,
     -32357, -33823, -35342, -36897, -38467, -40029, -41560, -43031, -44417, -45689,
     -46819, -47778, -48540, -49078, -49368, -49389, -49120, -48546, -47654, -46436,
     -44886, -43004, -40794, -38264, -35426, -32297, -28898, -25254, -21393, -17345,
     -13145, -8829, -4434, 0, 4434, 8829, 13145, 17345, 21393, 25254,
     28899, 32297, 35426, 38264, 40794, 43004, 44886, 46436, 47654, 48546,
     49120, 49389, 49368, 49078, 48540, 47778, 46819, 45689, 44417, 43031,
     41560, 40029, 38467, 36897, 35342, 33823, 32357, 30958, 29639, 28409,
     27273, 26234, 25292, 24442, 23680, 22997, 22383, 21826, 21312, 20827,
     20356, 19883, 19394, 18874, 18310, 17689, 17001, 16236, 15389, 14453,
     13427, 12311, 11106, 9818, 8451, 7016, 5521, 3978, 2401, 803,
     -803, -2401, -3979, -5521, -7016, -8451, -9818, -11106, -12311, -13427,
     -14453, -15389, -16236, -17001, -17689, -18310, -18874, -19394, -19883, -20356,
     -20827, -21312, -21826, -22383, -22997, -23680, -24442, -25292, -26234, -27273,
     -28409, -29639, -30958, -32356, -33823, -35342, -36897, -38467, -40029, -41560,
     -43031, -44417, -45689, -46819, -47778, -48540, -49078, -49368, -49389, -49120,
     -48546, -47654, -46436, -44886, -43004, -40794, -38264, -35426, -32297, -28898,
     -25254, -21393, -17345, -13145, -8829, -4434, 0, 4434, 8829, 13145,
     17345, 21393, 25254, 28899, 32297, 35426, 38264, 40794, 43004, 44886,
     46436, 47654, 48546, 49120, 49389, 49368, 49078, 48540, 47778, 46819,
     45689, 44417, 43031, 41560, 40029, 38467, 36897, 35342, 33823, 32357,
     30958, 29639, 28409, 27273, 26234, 25292, 24442, 23680, 22997, 22383,
     21826, 21312, 20827, 20356, 19883, 19394, 18874, 18310, 17689, 17001,
     16236, 15389, 14453, 13427, 12311, 11106, 9818, 8451, 7016, 5521,
     3978, 2401, 803, -803, -2401, -3979, -5521, -7016, -8451, -9818,
     -11106, -12311, -13427, -14453, -15389, -16236, -17001, -17689, -18310, -18874,
     -19394, -19883, -20356, -20827, -21312, -21826, -22383, -22998, -23680, -24442,
     -25292, -26234, -27273, -28409, -29639, -30958, -32357, -33823, -35342, -36897,
     -38467, -40029, -41560, -43031, -44417, -45689, -46819, -47778, -48540, -49078,
     -49368, -49389, -49120, -48546, -47654, -46436, -44886, -43004, -40794, -38264,
     -35426, -32297, -28898, -25254, -21393, -17345, -13145, -8829, -4434, 0
  >>
LissajousY ==
  <<
     21213, 26102, 30725, 34954, 38672, 41780, 44197, 45867, 46760, 46870,
     46217, 44848, 42828, 40242, 37188, 33772, 30107, 26301, 22460, 18678,
     15035, 11597, 8411, 5505, 2891, 562, -1503, -3335, -4975, -6468,
     -7859, -9192, -10504, -11824, -13168, -14544, -15946, -17356, -18748, -20087,
     -21332, -22442, -23375, -24094, -24571, -24785, -24730, -24410, -23844, -23066,
     -22116, -21050, -19925, -18804, -17748, -16816, -16055, -15504, -15185, -15103,
     -15248, -15589, -16079, -16654, -17237, -17743, -18080, -18157, -17886, -17187,
     -15996, -14266, -11970, -9106, -5693, -1779, 2567, 7254, 12173, 17201,
     22206, 27052, 31606, 35742, 39345, 42320, 44592, 46109, 46844, 46799,
     45999, 44494, 42353, 39665, 36530, 33056, 29354, 25533, 21696, 17936,
     14330, 10939, 7807, 4959, 2403, 128, -1887, -3677, -5284, -6753,
     -8129, -9455, -10767, -12090, -13441, -14823, -16228, -17637, -19022, -20345,
     -21566, -22644, -23537, -24210, -24635, -24796, -24686, -24315, -23705, -22888,
     -21911, -20827, -19698, -18585, -17550, -16649, -15928, -15421, -15150, -15115,
     -15302, -15677, -16189, -16772, -17347, -17827, -18119, -18133, -17782, -16990,
     -15695, -13853, -11443, -8466, -4948, -942, 3481, 8223, 13174, 18208,
     23192, 27990, 32471, 36508, 39993, 42833, 44957, 46319, 46897, 46698,
     45752, 44114, 41856, 39071, 35859, 32330, 28595, 24764, 20936, 17200,
     13633, 10291, 7214, 4425, 1926, -294, -2262, -4012, -5587, -7034,
     -8397, -9718, -11030, -12358, -13715, -15102, -16510, -17917, -19292, -20599,
     -21795, -22838, -23690, -24315, -24689, -24795, -24633, -24212, -23556, -22704,
     -21701, -20603, -19472, -18370, -17358, -16489, -15808, -15348, -15124, -15136,
     -15364, -15771, -16303, -16891, -17454, -17903, -18147, -18095, -17661, -16773,
     -15371, -13417, -10892, -7804, -4184, -88, 4407, 9201, 14179, 19213,
     24171, 28916, 33317, 37253, 40616, 43317, 45291, 46497, 46919, 46567,
     45478, 43709, 41338, 38459, 35175, 31596, 27834, 23995, 20178, 16471,
     12945, 9653, 6633, 3902, 1460, -707, -2628, -4339, -5885, -7312,
     -8664, -9980, -11294, -12627, -13990, -15383, -16793, -18196, -19560, -20848,
     -22017, -23025, -23834, -24411, -24732, -24784, -24568, -24098, -23400, -22513,
     -21487, -20378, -19248, -18159, -17171, -16336, -15698, -15284, -15108, -15165,
     -15432, -15869, -16418, -17008, -17556, -17971, -18163, -18041, -17522, -16535,
     -15025, -12957, -10319, -7121, -3401, 782, 5345, 10185, 15185, 20215,
     25141, 29828, 34145, 37974, 41211, 43772, 45595, 46644, 46910, 46407,
     45176, 43280, 40800, 37831, 34479, 30855, 27069, 23227, 19426, 15749,
     12266, 9027, 6063, 3391, 1005, -1110, -2986, -4660, -6179, -7587,
     -8928, -10242, -11558, -12897, -14266, -15664, -17075, -18473, -19825, -21093,
     -22233, -23204, -23969, -24496, -24764, -24762, -24494, -23976, -23237, -22317,
     -21270, -20151, -19025, -17951, -16990, -16192, -15596, -15230, -15101, -15202,
     -15508, -15972, -16535, -17124, -17652, -18031, -18167, -17972, -17364, -16276,
     -14657, -12475, -9723, -6417, -2599, 1667, 6295, 11177, 16193, 21213
  >>
\* lib.rs gen_animation_function, example 3, the spirograph pattern: x[i] and y[i] for
\* i = 0..ANIMATION_NUM_POINTS-1, in units of 1/Scale
SpirographX ==
  <<
     65000, 64936, 64745, 64428, 63988, 63427, 62750, 61961, 61066, 60072,
     58984, 57810, 56559, 55238, 53856, 52422, 50945, 49434, 47898, 46345,
     44785, 43226, 41675, 40140, 38629, 37148, 35701, 34296, 32936, 31624,
     30365, 29159, 28009, 26915, 25878, 24895, 23967, 23091, 22263, 21482,
     20744, 20043, 19376, 18739, 18125, 17532, 16952, 16381, 15815, 15248,
     14677, 14096, 13503, 12894, 12265, 11615, 10942, 10245, 9522, 8774,
     8001, 7204, 6386, 5547, 4692, 3822, 2943, 2056, 1168, 282,
     -597, -1464, -2314, -3143, -3946, -4717, -5454, -6151, -6805, -7413,
     -7973, -8481, -8937, -9339, -9687, -9982, -10223, -10413, -10554, -10649,
     -10701, -10714, -10694, -10644, -10570, -10479, -10376, -10269, -10162, -10064,
     -9981, -9919, -9885, -9886, -9926, -10012, -10148, -10339, -10590, -10902,
     -11279, -11723, -12234, -12814, -13460, -14173, -14949, -15785, -16679, -17625,
     -18618, -19652, -20721, -21818, -22934, -24063, -25195, -26322, -27436, -28528,
     -29589, -30610, -31583, -32500, -33353, -34135, -34840, -35460, -35991, -36428,
     -36766, -37004, -37137, -37166, -37089, -36906, -36620, -36231, -35743, -35160,
     -34486, -33725, -32885, -31972, -30991, -29952, -28861, -27727, -26558, -25362,
     -24148, -22924, -21698, -20479, -19274, -18090, -16934, -15813, -14733, -13699,
     -12714, -11784, -10912, -10100, -9349, -8662, -8038, -7476, -6977, -6539,
     -6158, -5833, -5561, -5338, -5160, -5022, -4921, -4852, -4810, -4792,
     -4791, -4805, -4828, -4858, -4890, -4922, -4950, -4974, -4990, -4999,
     -4999, -4990, -4974, -4950, -4922, -4890, -4858, -4828, -4805, -4791,
     -4792, -4810, -4852, -4921, -5022, -5160, -5338, -5561, -5833, -6158,
     -6539, -6977, -7476, -8038, -8662, -9349, -10100, -10912, -11784, -12714,
     -13699, -14733, -15813, -16934, -18090, -19274, -20479, -21698, -22924, -24148,
     -25362, -26558, -27727, -28861, -29952, -30991, -31972, -32885, -33725, -34486,
     -35160, -35743, -36231, -36620, -36906, -37089, -37166, -37137, -37004, -36766,
     -36428, -35991, -35460, -34840, -34135, -33353, -32500, -31583, -30610, -29589,
     -28528, -27436, -26322, -25195, -24063, -22934, -21818, -20721, -19652, -18618,
     -17625, -16679, -15785, -14949, -14172, -13460, -12814, -12234, -11723, -11279,
     -10902, -10590, -10339, -10148, -10012, -9926, -9886, -9885, -9919, -9981,
     -10064, -10162, -10269, -10376, -10479, -10570, -10644, -10694, -10714, -10701,
     -10649, -10554, -10413, -10223, -9982, -9687, -9339, -8937, -8481, -7973,
     -7413, -6805, -6151, -5454, -4717, -3946, -3143, -2314, -1464, -597,
     282, 1168, 2056, 2943, 3822, 4692, 5547, 6386, 7204, 8001,
     8774, 9522, 10245, 10942, 11615, 12265, 12894, 13503, 14096, 14677,
     15248, 15815, 16381, 16952, 17532, 18125, 18739, 19376, 20043, 20744,
     21482, 22263, 23091, 23967, 24895, 25878, 26915, 28009, 29159, 30365,
     31624, 32936, 34296, 35701, 37148, 38629, 40140, 41675, 43226, 44785,
     46345, 47898, 49434, 50945, 52422, 53856, 55238, 56559, 57810, 58984,
     60072, 61066, 61961, 62750, 63427, 63988, 64428, 64745, 64936, 65000
  >>
SpirographY ==
  <<
     0, 2282, 4553, 6806, 9028, 11212, 13348, 15428, 17444, 19387,
     21252, 23032, 24722, 26317, 27813, 29208, 30500, 31687, 32770, 33748,
     34623, 35398, 36075, 36658, 37151, 37559, 37888, 38143, 38332, 38459,
     38532, 38558, 38544, 38497, 38423, 38329, 38222, 38106, 37989, 37874,
     37767, 37671, 37591, 37528, 37485, 37464, 37465, 37489, 37535, 37603,
     37690, 37794, 37913, 38045, 38184, 38329, 38473, 38615, 38748, 38869,
     38973, 39057, 39115, 39144, 39141, 39102, 39025, 38907, 38746, 38541,
     38291, 37997, 37658, 37276, 36852, 36388, 35888, 35354, 34791, 34202,
     33592, 32967, 32332, 31692, 31052, 30419, 29799, 29196, 28617, 28067,
     27550, 27072, 26636, 26247, 25907, 25619, 25385, 25206, 25083, 25015,
     25002, 25041, 25131, 25267, 25448, 25667, 25920, 26201, 26504, 26822,
     27148, 27476, 27797, 28104, 28388, 28644, 28862, 29035, 29156, 29219,
     29218, 29146, 28998, 28770, 28458, 28060, 27572, 26993, 26323, 25563,
     24713, 23775, 22753, 21651, 20472, 19222, 17907, 16535, 15111, 13645,
     12143, 10616, 9071, 7518, 5966, 4424, 2901, 1406, -52, -1465,
     -2826, -4126, -5359, -6520, -7601, -8599, -9509, -10329, -11056, -11687,
     -12224, -12665, -13011, -13265, -13428, -13503, -13495, -13408, -13246, -13015,
     -12721, -12369, -11967, -11520, -11035, -10519, -9978, -9419, -8847, -8269,
     -7690, -7116, -6550, -5998, -5462, -4946, -4452, -3982, -3538, -3119,
     -2727, -2360, -2017, -1698, -1399, -1118, -853, -600, -356, -118,
     118, 356, 600, 853, 1118, 1399, 1698, 2017, 2360, 2727,
     3119, 3538, 3982, 4452, 4946, 5462, 5998, 6550, 7116, 7690,
     8269, 8847, 9419, 9978, 10519, 11035, 11520, 11967, 12369, 12721,
     13015, 13246, 13408, 13495, 13503, 13428, 13265, 13011, 12665, 12224,
     11687, 11056, 10329, 9509, 8599, 7601, 6520, 5359, 4126, 2826,
     1465, 52, -1406, -2901, -4424, -5966, -7518, -9071, -10616, -12143,
     -13645, -15111, -16535, -17907, -19222, -20472, -21651, -22753, -23775, -24713,
     -25563, -26323, -26993, -27572, -28060, -28458, -28770, -28998, -29146, -29218,
     -29219, -29156, -29035, -28862, -28644, -28388, -28104, -27797, -27476, -27148,
     -26822, -26504, -26201, -25920, -25667, -25448, -25267, -25131, -25041, -25002,
     -25015, -25083, -25206, -25385, -25619, -25907, -26247, -26636, -27072, -27550,
     -28067, -28617, -29196, -29799, -30419, -31052, -31692, -32332, -32967, -33592,
     -34202, -34791, -35354, -35888, -36388, -36852, -37276, -37658, -37997, -38291,
     -38541, -38746, -38907, -39025, -39102, -39141, -39144, -39115, -39057, -38973,
     -38869, -38748, -38615, -38473, -38329, -38184, -38045, -37913, -37794, -37690,
     -37603, -37535, -37489, -37465, -37464, -37485, -37528, -37591, -37671, -37767,
     -37874, -37989, -38106, -38222, -38329, -38423, -38497, -38544, -38558, -38532,
     -38459, -38332, -38143, -37888, -37559, -37151, -36658, -36075, -35398, -34623,
     -33748, -32770, -31687, -30500, -29208, -27813, -26317, -24722, -23032, -21252,
     -19387, -17443, -15428, -13348, -11212, -9028, -6806, -4553, -2282, 0
  >>

\* lib.rs gen_animation_function: the vectors x and y of an example, all zeros
\* with a console error for a code that is no example
gen_animation_function(example) ==
    LET xs == CASE example = 0 -> EpitrochoidX
                [] example = 1 -> RoseX
                [] example = 2 -> LissajousX
                [] example = 3 -> SpirographX
                [] OTHER -> [j \in 1..ANIMATION_NUM_POINTS |-> 0]
        ys == CASE example = 0 -> EpitrochoidY
                [] example = 1 -> RoseY
                [] example = 2 -> LissajousY
                [] example = 3 -> SpirographY
                [] OTHER -> [j \in 1..ANIMATION_NUM_POINTS |-> 0]
    IN  [x |-> [j \in 1..ANIMATION_NUM_POINTS |-> FinFixed(xs[j])],
         y |-> [j \in 1..ANIMATION_NUM_POINTS |-> FinFixed(ys[j])],
         unknown |-> example \notin 0..3]
EngineInputs == { << >> } \cup FiniteSignals \cup PoisonedSignals

---------------------------------------------------------------------------
(* Spec: one animation controller, from_fourier onwards *)

Init ==
    /\ build \in Builds
    /\ data \in { AnimationData(n) : n \in 1..MaxPoints }
    /\ engine = from_complex(data)
    /\ query = NoQuery
    /\ k_min \in 0..MaxK
    /\ k_max \in 0..MaxK
    /\ current_point = 0
    /\ point_speed = DEFAULT_SPEED
    /\ is_paused = TRUE
    /\ is_stopped = TRUE
    /\ loop_running = FALSE
    /\ lastOp = "from_fourier"
    /\ lastArg = 0
    /\ run = NoRun
    /\ frame = NoFrame
    /\ ANIMATION = NoAnimation
    /\ past = NoPast
    /\ EXAMPLE_CACHE = NoCache
    /\ prepared = NoPrepared

Next ==
    \/ Start
    \/ Stop
    \/ Play
    \/ Pause
    \/ \E speed \in Speeds : SetSpeed(speed)
    \/ \E elapsed \in ElapsedHalves : Step(elapsed)

Spec == Init /\ [][Next]_vars

---------------------------------------------------------------------------
(* SpecEngine: one engine, construction and queries *)

Query(op, args, res) ==
    /\ engine.tag = "Ok"
    /\ query' = [op |-> op, args |-> args, res |-> res]
    /\ UNCHANGED << engineVars, animVars, appVars >>

QFilteredRange(kmin, kmax) ==
    Query("filtered_range", << kmin, kmax >>,
          filtered_range(engine.val, kmin, kmax, build))
QGetComponent(frequency, time_step) ==
    Query("get_component", << frequency, time_step >>,
          get_component(engine.val, frequency, time_step))
\* power_spectrum rotating the stored coefficients themselves for the shifted
\* view, instead of a copy of their powers
QPowerSpectrumInPlace(shifted) ==
    LET res == power_spectrum(engine.val, shifted, build)
        max_k == max_frequency(engine.val, build)
    IN  /\ engine.tag = "Ok"
        /\ query' = [op |-> "power_spectrum", args |-> << shifted >>, res |-> res]
        /\ engine' = IF shifted /\ res.tag = "Ok"
                     THEN [engine EXCEPT !.val.transform = rotate_left(@, max_k.val + 1)]
                     ELSE engine
        /\ UNCHANGED << build, data, animVars, appVars >>

QPowerSpectrum(shifted) ==
    Query("power_spectrum", << shifted >>, power_spectrum(engine.val, shifted, build))
QMaxFrequency == Query("max_frequency", << >>, max_frequency(engine.val, build))
QSize == Query("size", << >>, Ok(size(engine.val)))
QOriginal == Query("original", << >>, Ok(original(engine.val)))

InitEngine ==
    /\ build \in Builds
    /\ data \in EngineInputs
    /\ engine = from_complex(data)
    /\ query = NoQuery
    /\ k_min = 0
    /\ k_max = 0
    /\ current_point = 0
    /\ point_speed = DEFAULT_SPEED
    /\ is_paused = TRUE
    /\ is_stopped = TRUE
    /\ loop_running = FALSE
    /\ lastOp = "none"
    /\ lastArg = 0
    /\ run = NoRun
    /\ frame = NoFrame
    /\ ANIMATION = NoAnimation
    /\ past = NoPast
    /\ EXAMPLE_CACHE = NoCache
    /\ prepared = NoPrepared

NextEngine ==
    \/ \E kmin \in 0..MaxK, kmax \in 0..MaxK : QFilteredRange(kmin, kmax)
    \/ \E frequency \in 0..MaxLen, time_step \in 0..MaxLen : QGetComponent(frequency, time_step)
    \/ \E shifted \in BOOLEAN : QPowerSpectrum(shifted)
    \/ QMaxFrequency
    \/ QSize
    \/ QOriginal

SpecEngine == InitEngine /\ [][NextEngine]_vars

---------------------------------------------------------------------------
(* The engine lib.rs builds and queries.  lib.rs calls                     *)
(* math::Fourier::new(Vec<f32>), power_spectrum() without an argument and  *)
(* a filtered_range and an original() of real vectors; math.rs has none of *)
(* them (its constructors are from_real and from_complex, its              *)
(* power_spectrum takes `shifted`, its vectors are complex).  The engine   *)
(* of these calls is the SpectralEngine of the specification, section 4.1, *)
(* without centring.                                                       *)

\* x / n for an integer n, each part rounded to the nearest unit
CDivN(c, n) == << RoundDiv(c[1], n), RoundDiv(c[2], n) >>

RECURSIVE Coefficients(_, _, _)
\* coefficients[k] = (1/N) * sum over i of sample[i] * exp(-2 pi i k i / N),
\* for k = from..to-1 in this order
Coefficients(samples, from, to) ==
    IF from >= to THEN << >>
    ELSE IF to = from + 1
    THEN << CDivN(DftSum(samples, from, 0), Len(samples)) >>
    ELSE LET mid == (from + to) \div 2
         IN  Coefficients(samples, from, mid) \o Coefficients(samples, mid, to)

\* create(samples) for a real signal: EmptyInput, NonFiniteValue, or the
\* engine of the samples and their coefficients
create(reals) ==
    IF Len(reals) = 0 THEN Err("EmptyInput")
    ELSE IF \E j \in 1..Len(reals) : ~is_finite(reals[j])
    THEN Err("NonFiniteValue")
    ELSE LET fixed == [j \in 1..Len(reals) |-> << reals[j].v, 0 >>]
         IN  Ok([transform |-> Coefficients(fixed, 0, Len(fixed)), original |-> fixed])

\* max_frequency = N/2 (floor)
Engine_max_frequency(fourier) == Len(fourier.transform) \div 2

\* the terms frequency k adds to sample i of a reconstruction:
\* coefficients[k] exp(+2 pi i k i / N) and, for k > 0,
\* coefficients[N-k] exp(+2 pi i (N-k) i / N)
BandTerm(fourier, i, k) ==
    LET total_points == Len(fourier.transform)
        positive == CMul(fourier.transform[k + 1], CExp(total_points, i * k))
    IN  IF k = 0 THEN positive
        ELSE CAdd(positive,
                  CMul(fourier.transform[total_points - k + 1],
                       CExp(total_points, i * (total_points - k))))

RECURSIVE BandSum(_, _, _, _)
BandSum(fourier, i, k, last) ==
    IF k > last THEN << 0, 0 >>
    ELSE CAdd(BandTerm(fourier, i, k), BandSum(fourier, i, k + 1, last))

\* filtered_range(k_min, k_max): InvalidRange, or the inverse transform
\* restricted to the band, without a normalisation
Engine_filtered_range(fourier, kmin, kmax) ==
    IF kmin > kmax \/ kmax > Engine_max_frequency(fourier)
    THEN Err("InvalidRange")
    ELSE Ok([j \in 1..Len(fourier.transform) |-> BandSum(fourier, j - 1, kmin, kmax)])

\* power_spectrum(): |coefficients[k]|^2 for every k, in natural order
Engine_power_spectrum(fourier) ==
    [j \in 1..Len(fourier.transform) |-> norm_sqr(fourier.transform[j])]

---------------------------------------------------------------------------
(* SpecExample: the example cache of lib.rs and plot_example *)

\* the kinds plot_example is called with: the step signal and the sine
ExampleKinds == {0, 1}

\* an engine and what filtered_range returns on it for the bands of
\* ExampleBands
Prepare(fourier) ==
    [fourier |-> fourier,
     filtered |-> IF fourier.tag = "Ok"
                  THEN [band \in ExampleBands |->
                          Engine_filtered_range(fourier.val, band[1], band[2])]
                  ELSE << >>]

\* lib.rs generate_cache: the vector x of the kind and the engine
\* math::Fourier::new(x) gives (for the kinds of ExampleKinds the engine is in
\* prepared)
generate_cache(kind) ==
    [kind |-> kind,
     x |-> ExampleX(kind),
     fourier |-> IF kind \in DOMAIN prepared THEN prepared[kind].fourier
                 ELSE create(ExampleX(kind))]

\* cache.fourier.filtered_range(k_min, k_max) of plot_cached_example, on the
\* engine of a cache of the kind (for the kinds of ExampleKinds and the bands
\* of ExampleBands the result is in prepared)
cached_filtered_range(kind, fourier, kmin, kmax) ==
    IF kind \in DOMAIN prepared /\ << kmin, kmax >> \in DOMAIN prepared[kind].filtered
    THEN prepared[kind].filtered[<< kmin, kmax >>]
    ELSE Engine_filtered_range(fourier, kmin, kmax)

\* what plot_example queries of a cache it has just generated:
\* plot_cached_example (filtered_range; an error is logged and nothing is
\* plotted) and then plot_cached_spectrum (the power spectrum)
plot_fresh_example(kmin, kmax, cache) ==
    [op |-> "power_spectrum", args |-> << >>,
     res |-> Ok(Engine_power_spectrum(cache.fourier.val)),
     filtered |-> cached_filtered_range(cache.kind, cache.fourier.val, kmin, kmax)]

\* plot_example.  With a cache of the same kind: plot_cached_example, which
\* queries filtered_range and plots original() and the filtered signal.
\* Otherwise generate_cache (a panic when the engine is refused),
\* plot_cached_example, plot_cached_spectrum, and the new cache replaces the
\* one EXAMPLE_CACHE held.  query keeps the last engine query of the handler
\* and, when that is the power spectrum, in filtered what filtered_range
\* returned before it.
PlotExample(kmin, kmax, kind) ==
    /\ IF EXAMPLE_CACHE.some /\ EXAMPLE_CACHE.kind = kind
       THEN /\ query' = [op |-> "filtered_range", args |-> << kmin, kmax >>,
                         res |-> cached_filtered_range(kind, engine.val, kmin, kmax)]
            /\ UNCHANGED << data, engine, EXAMPLE_CACHE >>
       ELSE \E cache \in { generate_cache(kind) } :
              IF cache.fourier.tag # "Ok"
              THEN /\ query' = [op |-> "generate_cache", args |-> << kind >>,
                                res |-> Panic("Fourier creation failed")]
                   /\ UNCHANGED << data, engine, EXAMPLE_CACHE >>
              ELSE /\ query' = plot_fresh_example(kmin, kmax, cache)
                   /\ data' = [j \in 1..TOTAL_NUM_POINTS |->
                                  Complex32(cache.x[j], Fin(0))]
                   /\ engine' = cache.fourier
                   /\ EXAMPLE_CACHE' = [some |-> TRUE, kind |-> cache.kind]
    /\ UNCHANGED << build, animVars, ANIMATION, past, prepared >>

\* the page is loaded: EXAMPLE_CACHE is None.  No step of plot_example
\* depends on the build.
InitExample ==
    /\ prepared = [kind \in ExampleKinds |-> Prepare(create(ExampleX(kind)))]
    /\ build = "release"
    /\ data = << >>
    /\ engine = from_complex(data)
    /\ query = NoQuery
    /\ k_min = 0
    /\ k_max = 0
    /\ current_point = 0
    /\ point_speed = DEFAULT_SPEED
    /\ is_paused = TRUE
    /\ is_stopped = TRUE
    /\ loop_running = FALSE
    /\ lastOp = "none"
    /\ lastArg = 0
    /\ run = NoRun
    /\ frame = NoFrame
    /\ ANIMATION = NoAnimation
    /\ past = NoPast
    /\ EXAMPLE_CACHE = NoCache

NextExample ==
    \E band \in ExampleBands, kind \in ExampleKinds : PlotExample(band[1], band[2], kind)

SpecExample == InitExample /\ [][NextExample]_vars

---------------------------------------------------------------------------
(* f64, bit for bit.  The speed controls leave the values for which the    *)
(* half-sample integers above are exact (2.0 * 50.0 / 3.0 is rounded), so  *)
(* SpecApp keeps point_speed and current_point as f64 values: zero, or a   *)
(* positive normal number m * 2^e with a 53-bit significand m kept in two  *)
(* limbs, m = hi * 2^26 + lo.  Arithmetic rounds to nearest, ties to even. *)
(* Negative numbers, subnormals, infinities and NaN are outside the range  *)
(* the bounds of SpecApp let the controls reach.                           *)

Limb == 67108864            \* 2^26
Pow2(k) == IF k <= 0 THEN 1 ELSE 2 ^ k

\* natural numbers below 2^57 in two limbs: hi * 2^26 + lo, lo < 2^26
WNorm(hi, lo) == [hi |-> hi + lo \div Limb, lo |-> lo % Limb]
WMul(w, c) == WNorm(w.hi * c, w.lo * c)
WAdd(a, b) == WNorm(a.hi + b.hi, a.lo + b.lo)
WSub(a, b) == IF a.lo >= b.lo THEN [hi |-> a.hi - b.hi, lo |-> a.lo - b.lo]
              ELSE [hi |-> a.hi - b.hi - 1, lo |-> a.lo + Limb - b.lo]
WLess(a, b) == a.hi < b.hi \/ (a.hi = b.hi /\ a.lo < b.lo)
WDist(a, b) == IF WLess(a, b) THEN WSub(b, a) ELSE WSub(a, b)
\* floor(w / c) and w mod c for a small c
WDiv(w, c) == [hi |-> w.hi \div c, lo |-> ((w.hi % c) * Limb + w.lo) \div c]
WMod(w, c) == ((w.hi % c) * Limb + w.lo) % c
\* floor(w / 2^d), and whether a one bit was shifted out
WShr(w, d) ==
    IF d >= 57 THEN [hi |-> 0, lo |-> 0]
    ELSE IF d >= 26 THEN WNorm(0, w.hi \div Pow2(d - 26))
    ELSE [hi |-> w.hi \div Pow2(d),
          lo |-> (w.hi % Pow2(d)) * Pow2(26 - d) + w.lo \div Pow2(d)]
WLost(w, d) ==
    IF d >= 57 THEN w.hi # 0 \/ w.lo # 0
    ELSE IF d >= 26 THEN w.hi % Pow2(d - 26) # 0 \/ w.lo # 0
    ELSE w.lo % Pow2(d) # 0

F64Zero == [hi |-> 0, lo |-> 0, e |-> 0]
F64IsZero(x) == x.hi = 0 /\ x.lo = 0
Significand(x) == [hi |-> x.hi, lo |-> x.lo]

\* the f64 nearest to w * 2^e (ties to even) for w >= 2^52; sticky says that
\* the exact value lies above w * 2^e by less than 2^e, and is given only
\* with w >= 2^53
F64Round(w, e, sticky) ==
    LET sh == IF w.hi < 2 * Limb THEN 0
              ELSE IF w.hi < 4 * Limb THEN 1
              ELSE IF w.hi < 8 * Limb THEN 2
              ELSE IF w.hi < 16 * Limb THEN 3
              ELSE 4
        q == WShr(w, sh)
        rest == w.lo % Pow2(sh)
        half == Pow2(sh - 1)
        up == /\ sh > 0
              /\ \/ rest > half
                 \/ rest = half /\ (sticky \/ q.lo % 2 = 1)
        r == IF up THEN WAdd(q, [hi |-> 0, lo |-> 1]) ELSE q
    IN  IF r.hi = 2 * Limb
        THEN [hi |-> Limb, lo |-> 0, e |-> e + sh + 1]
        ELSE [hi |-> r.hi, lo |-> r.lo, e |-> e + sh]

\* x * 2^k (exact)
F64Scale(x, k) == IF F64IsZero(x) THEN x ELSE [x EXCEPT !.e = @ + k]
\* 3.0 * x
F64Mul3(x) ==
    IF F64IsZero(x) THEN x ELSE F64Round(WMul(Significand(x), 3), x.e, FALSE)
\* x * (h / 2) for a natural h below 16: the product is exact in the two
\* limbs and is rounded once
F64MulHalves(x, h) ==
    IF F64IsZero(x) \/ h = 0 THEN F64Zero
    ELSE F64Round(WMul(Significand(x), h), x.e - 1, FALSE)
\* x / 3.0
F64Div3(x) ==
    IF F64IsZero(x) THEN x
    ELSE LET w == WMul(Significand(x), 8)
         IN  F64Round(WDiv(w, 3), x.e - 3, WMod(w, 3) # 0)
\* a + b for a, b >= 0
F64Add(a, b) ==
    IF F64IsZero(a) THEN b
    ELSE IF F64IsZero(b) THEN a
    ELSE LET big == IF a.e >= b.e THEN a ELSE b
             small == IF a.e >= b.e THEN b ELSE a
             d == big.e - small.e
             ws == WMul(Significand(small), 8)
         IN  F64Round(WAdd(WMul(Significand(big), 8), WShr(ws, d)),
                      big.e - 3, WLost(ws, d))
\* a < b for a, b >= 0
F64Less(a, b) ==
    IF F64IsZero(b) THEN FALSE
    ELSE IF F64IsZero(a) THEN TRUE
    ELSE a.e < b.e \/ (a.e = b.e /\ WLess(Significand(a), Significand(b)))
\* the f64 of a positive integer below 2^26
F64Of(n) ==
    LET RECURSIVE Normal(_, _)
        Normal(hi, e) == IF hi >= Limb THEN [hi |-> hi, lo |-> 0, e |-> e]
                         ELSE Normal(2 * hi, e - 1)
    IN  IF n = 0 THEN F64Zero ELSE Normal(n, -26)
\* `x as usize` for x >= 0: truncates and saturates
F64AsUsize(x) ==
    IF F64IsZero(x) \/ x.e < -52 THEN 0
    ELSE IF x.e > UsizeBits - 53 THEN UsizeMax
    ELSE WShr(Significand(x), -x.e).lo

---------------------------------------------------------------------------
(* SpecApp: the ANIMATION singleton and the handlers the page calls *)

\* bounds: decrease_animation_speed is taken only at speeds of at least
\* DEFAULT_SPEED / 2^SlowShift, increase_animation_speed only at speeds below
\* FastCap samples per time unit
SlowShift == 3
FastCap == 60
\* an advancing tick is taken only from positions below TickCap samples
TickCap == 1
DefaultSpeed == F64Of(DEFAULT_SPEED)

\* past after a speed control: the last two controls called in a row, their
\* names and the speed each of them found
Remember(p, op, speed) ==
    LET ops == Append(p.ops, op)
        speeds == Append(p.speeds, speed)
        n == Len(ops)
    IN  [NoPast EXCEPT !.ops = IF n > 2 THEN SubSeq(ops, n - 1, n) ELSE ops,
                       !.speeds = IF n > 2 THEN SubSeq(speeds, n - 1, n) ELSE speeds]

\* past after a toggle that installed a controller: the speed of the
\* controller it dropped, if there was one
Installed ==
    [NoPast EXCEPT !.installed = TRUE,
                   !.ops = IF ANIMATION.some THEN << "play_pause" >> ELSE << >>,
                   !.speeds = IF ANIMATION.some THEN << point_speed >> ELSE << >>]

AppAlive == ~frame.panicked

\* a handler that finds ANIMATION empty, or a tick that finds the controller
\* paused, changes nothing
Untouched ==
    UNCHANGED << engineVars, k_min, k_max, current_point, point_speed, is_paused,
                 is_stopped, loop_running, ANIMATION >>

\* the example code the page starts an animation with: the epitrochoid
AnimationExamples == {0}
\* the time between two animation frames, in half time units
FrameTimes == {1}

\* init_animation_on_canvas up to the controller.  lib.rs builds an engine of
\* x and one of y with math::Fourier::new, plots the sum of their power
\* spectra, and hands both engines to the controller; animation.rs keeps one
\* engine of math.rs, built from the complex samples x + iy
\* (animation::Fourier::new).  created says whether both engines of lib.rs
\* were accepted.
AnimationEngines(example_code) ==
    LET curve == gen_animation_function(example_code)
        fourier_x == create(curve.x)
        fourier_y == create(curve.y)
        created == fourier_x.tag = "Ok" /\ fourier_y.tag = "Ok"
        power_x == Engine_power_spectrum(fourier_x.val)
        power_y == Engine_power_spectrum(fourier_y.val)
    IN  [created |-> created,
         spectrum |-> IF created
                      THEN [j \in 1..ANIMATION_NUM_POINTS |-> power_x[j] + power_y[j]]
                      ELSE << >>,
         fourier |-> from_complex([j \in 1..ANIMATION_NUM_POINTS |->
                                      Complex32(curve.x[j], curve.y[j])])]

\* AnimationEngines of a code: the one computed when the page was loaded for
\* the codes of AnimationExamples
EnginesOf(example_code) ==
    IF example_code \in DOMAIN prepared THEN prepared[example_code]
    ELSE AnimationEngines(example_code)

\* init_animation_on_canvas: the curve of the example, its engines, the
\* histogram of the combined spectrum on "animation-spectrum-canvas" (kept in
\* query), Fourier::from_fourier, start() and set_animation; clear_animation
\* when an engine is refused.  The controller ANIMATION held is dropped.
init_animation_on_canvas(kmin, kmax, example_code) ==
    \E built \in { EnginesOf(example_code) } :
        /\ data' = [j \in 1..ANIMATION_NUM_POINTS |->
                      Complex32(gen_animation_function(example_code).x[j],
                                gen_animation_function(example_code).y[j])]
        /\ engine' = built.fourier
        /\ build' = build
        /\ query' = IF built.created
                    THEN [op |-> "plot_histogram",
                          args |-> << "animation-spectrum-canvas" >>,
                          res |-> Ok([freq |-> [j \in 1..ANIMATION_NUM_POINTS |-> j - 1],
                                      powers |-> built.spectrum])]
                    ELSE query
        /\ ANIMATION' = [some |-> built.created,
                         dropped_running |-> IF ANIMATION.some /\ loop_running
                                             THEN ANIMATION.dropped_running + 1
                                             ELSE ANIMATION.dropped_running]
        /\ k_min' = kmin
        /\ k_max' = kmax
        /\ current_point' = F64Zero
        /\ point_speed' = DefaultSpeed
        /\ is_paused' = ~built.created
        /\ is_stopped' = ~built.created
        /\ loop_running' = built.created

\* the toggle that resets the speed only when it is above the default
PlayPauseResettingFasterOnly(kmin, kmax, example_code) ==
    /\ AppAlive
    /\ lastOp' = "play_pause_animation"
    /\ lastArg' = << kmin, kmax >>
    /\ frame' = NoFrame
    /\ IF ~ANIMATION.some \/ is_stopped
       THEN /\ init_animation_on_canvas(kmin, kmax, example_code)
            /\ past' = Installed
       ELSE IF is_paused
       THEN /\ is_paused' = FALSE
            /\ past' = NoPast
            /\ UNCHANGED << engineVars, query, k_min, k_max, current_point, point_speed,
                            is_stopped, loop_running, ANIMATION >>
       ELSE IF F64Less(DefaultSpeed, point_speed)
       THEN /\ point_speed' = DefaultSpeed
            /\ past' = [NoPast EXCEPT !.toggles = past.toggles + 1]
            /\ UNCHANGED << engineVars, query, k_min, k_max, current_point, is_paused,
                            is_stopped, loop_running, ANIMATION >>
       ELSE /\ is_paused' = TRUE
            /\ past' = NoPast
            /\ UNCHANGED << engineVars, query, k_min, k_max, current_point, point_speed,
                            is_stopped, loop_running, ANIMATION >>
    /\ UNCHANGED << run, EXAMPLE_CACHE, prepared >>

\* the toggle that also starts over from a Paused controller
PlayPauseRestartingPaused(kmin, kmax, example_code) ==
    /\ AppAlive
    /\ lastOp' = "play_pause_animation"
    /\ lastArg' = << kmin, kmax >>
    /\ frame' = NoFrame
    /\ IF ~ANIMATION.some \/ is_stopped \/ is_paused
       THEN /\ init_animation_on_canvas(kmin, kmax, example_code)
            /\ past' = Installed
       ELSE IF F64Less(DefaultSpeed, point_speed) \/ F64Less(point_speed, DefaultSpeed)
       THEN /\ point_speed' = DefaultSpeed
            /\ past' = [NoPast EXCEPT !.toggles = past.toggles + 1]
            /\ UNCHANGED << engineVars, query, k_min, k_max, current_point, is_paused,
                            is_stopped, loop_running, ANIMATION >>
       ELSE /\ is_paused' = TRUE
            /\ past' = NoPast
            /\ UNCHANGED << engineVars, query, k_min, k_max, current_point, point_speed,
                            is_stopped, loop_running, ANIMATION >>
    /\ UNCHANGED << run, EXAMPLE_CACHE, prepared >>

\* play_pause_animation with init_animation_on_canvas as its init_fn
PlayPauseAnimation(kmin, kmax, example_code) ==
    /\ AppAlive
    /\ lastOp' = "play_pause_animation"
    /\ lastArg' = << kmin, kmax >>
    /\ frame' = NoFrame
    /\ IF ~ANIMATION.some \/ is_stopped
       THEN /\ init_animation_on_canvas(kmin, kmax, example_code)
            /\ past' = Installed
       ELSE IF is_paused
       THEN /\ is_paused' = FALSE
            /\ past' = NoPast
            /\ UNCHANGED << engineVars, query, k_min, k_max, current_point, point_speed,
                            is_stopped, loop_running, ANIMATION >>
       ELSE IF F64Less(DefaultSpeed, point_speed) \/ F64Less(point_speed, DefaultSpeed)
       THEN /\ point_speed' = DefaultSpeed
            /\ past' = [NoPast EXCEPT !.toggles = past.toggles + 1]
            /\ UNCHANGED << engineVars, query, k_min, k_max, current_point, is_paused,
                            is_stopped, loop_running, ANIMATION >>
       ELSE /\ is_paused' = TRUE
            /\ past' = NoPast
            /\ UNCHANGED << engineVars, query, k_min, k_max, current_point, point_speed,
                            is_stopped, loop_running, ANIMATION >>
    /\ UNCHANGED << run, EXAMPLE_CACHE, prepared >>

\* stop_animation
StopAnimation ==
    /\ AppAlive
    /\ lastOp' = "stop_animation"
    /\ lastArg' = 0
    /\ frame' = NoFrame
    /\ past' = NoPast
    /\ IF ANIMATION.some
       THEN /\ is_stopped' = TRUE
            /\ current_point' = F64Zero
            /\ loop_running' = FALSE
            /\ UNCHANGED << engineVars, k_min, k_max, point_speed, is_paused,
                            ANIMATION >>
       ELSE Untouched
    /\ UNCHANGED << query, run, EXAMPLE_CACHE, prepared >>

\* the increase that doubles the speed
IncreaseAnimationSpeedDoubling ==
    /\ AppAlive
    /\ ~ANIMATION.some \/ F64AsUsize(point_speed) < FastCap
    /\ lastOp' = "increase_animation_speed"
    /\ lastArg' = 0
    /\ frame' = NoFrame
    /\ IF ANIMATION.some
       THEN /\ point_speed' = F64Scale(point_speed, 1)
            /\ past' = Remember(past, "increase", point_speed)
            /\ UNCHANGED << engineVars, k_min, k_max, current_point, is_paused,
                            is_stopped, loop_running, ANIMATION >>
       ELSE Untouched /\ past' = NoPast
    /\ UNCHANGED << query, run, EXAMPLE_CACHE, prepared >>

\* increase_animation_speed: set_speed(3.0 * speed / 2.0)
IncreaseAnimationSpeed ==
    /\ AppAlive
    /\ ~ANIMATION.some \/ F64AsUsize(point_speed) < FastCap
    /\ lastOp' = "increase_animation_speed"
    /\ lastArg' = 0
    /\ frame' = NoFrame
    /\ IF ANIMATION.some
       THEN /\ point_speed' = F64Scale(F64Mul3(point_speed), -1)
            /\ past' = Remember(past, "increase", point_speed)
            /\ UNCHANGED << engineVars, k_min, k_max, current_point, is_paused,
                            is_stopped, loop_running, ANIMATION >>
       ELSE Untouched /\ past' = NoPast
    /\ UNCHANGED << query, run, EXAMPLE_CACHE, prepared >>

\* decrease_animation_speed: set_speed(2.0 * speed / 3.0)
DecreaseAnimationSpeed ==
    /\ AppAlive
    /\ ~ANIMATION.some \/ ~F64Less(F64Scale(point_speed, SlowShift), DefaultSpeed)
    /\ lastOp' = "decrease_animation_speed"
    /\ lastArg' = 0
    /\ frame' = NoFrame
    /\ IF ANIMATION.some
       THEN /\ point_speed' = F64Div3(F64Scale(point_speed, 1))
            /\ past' = Remember(past, "decrease", point_speed)
            /\ UNCHANGED << engineVars, k_min, k_max, current_point, is_paused,
                            is_stopped, loop_running, ANIMATION >>
       ELSE Untouched /\ past' = NoPast
    /\ UNCHANGED << query, run, EXAMPLE_CACHE, prepared >>

\* AnimationEventHandler::on_animation_frame: Fourier::step on the controller
\* ANIMATION holds.  elapsed is in half time units.
OnAnimationFrame(elapsed) ==
    /\ AppAlive
    /\ ~ANIMATION.some \/ is_paused \/ F64Less(current_point, F64Of(TickCap))
    /\ lastOp' = "on_animation_frame"
    /\ lastArg' = IF ANIMATION.some /\ ~is_paused THEN elapsed ELSE 0
    /\ past' = NoPast
    /\ IF ANIMATION.some /\ ~is_paused
       THEN LET n == size(engine.val)
                advanced == F64Add(current_point, F64MulHalves(point_speed, elapsed))
                position == IF F64Less(advanced, F64Zero) THEN F64Of(n) ELSE advanced
                sum == usize_add(n, F64AsUsize(position), build)
            IN  /\ current_point' = position
                /\ frame' = IF sum.tag = "Panic"
                            THEN [NoFrame EXCEPT !.overflowed = TRUE, !.panicked = TRUE]
                            ELSE [plot_all(engine.val, k_min, k_max, sum.val % n, build)
                                    EXCEPT !.overflowed =
                                        (n + F64AsUsize(position) > UsizeMax)]
                /\ UNCHANGED << engineVars, k_min, k_max, point_speed, is_paused,
                                is_stopped, loop_running, ANIMATION >>
       ELSE Untouched /\ frame' = NoFrame
    /\ UNCHANGED << query, run, EXAMPLE_CACHE, prepared >>

\* the page is loaded: ANIMATION is None.  The page is a build without
\* overflow checks; no handler of SpecApp comes near the end of the machine
\* word, where the builds differ.
InitApp ==
    /\ prepared = [example_code \in AnimationExamples |-> AnimationEngines(example_code)]
    /\ build = "release"
    /\ data = << >>
    /\ engine = from_complex(data)
    /\ query = NoQuery
    /\ k_min = 0
    /\ k_max = 0
    /\ current_point = F64Zero
    /\ point_speed = DefaultSpeed
    /\ is_paused = TRUE
    /\ is_stopped = TRUE
    /\ loop_running = FALSE
    /\ lastOp = "none"
    /\ lastArg = 0
    /\ run = NoRun
    /\ frame = NoFrame
    /\ ANIMATION = NoAnimation
    /\ past = NoPast
    /\ EXAMPLE_CACHE = NoCache

NextApp ==
    \/ \E band \in BandInputs, example_code \in AnimationExamples :
          PlayPauseAnimation(band[1], band[2], example_code)
    \/ StopAnimation
    \/ IncreaseAnimationSpeed
    \/ DecreaseAnimationSpeed
    \/ \E elapsed \in FrameTimes : OnAnimationFrame(elapsed)

SpecApp == InitApp /\ [][NextApp]_vars

---------------------------------------------------------------------------
(* Claims *)

\* two fixed-point values are equal within numerical tolerance
Tol == Scale \div 100
Close(a, b) ==
    /\ a[1] - b[1] <= Tol /\ b[1] - a[1] <= Tol
    /\ a[2] - b[2] <= Tol /\ b[2] - a[2] <= Tol

N == size(engine.val)

\* C1 (SpecEngine): round trip. Whenever filtered_range(0, max_frequency()) has
\* been queried, it returned a signal equal to original() at every sample
\* index, within tolerance.
C1_RoundTrip ==
    (/\ query.op = "filtered_range"
     /\ max_frequency(engine.val, build).tag = "Ok"
     /\ query.args = << 0, max_frequency(engine.val, build).val >>)
    => /\ query.res.tag = "Ok"
       /\ \A j \in 1..N : Close(query.res.val[j], original(engine.val)[j])

\* C2 (SpecEngine): filtered_range(k_min, k_max) returns Err whenever
\* k_min > k_max or k_max > max_frequency(), and otherwise Ok with exactly N
\* samples.
C2_FilteredRangeBounds ==
    query.op = "filtered_range"
    => LET max_k == max_frequency(engine.val, build)
           rejected == \/ query.args[1] > query.args[2]
                       \/ (max_k.tag = "Ok" /\ query.args[2] > max_k.val)
       IN  IF rejected THEN query.res.tag = "Err"
           ELSE query.res.tag = "Ok" /\ Len(query.res.val) = N

\* C3 (SpecEngine): get_component with a frequency outside 0..N-1 returns a
\* typed error value; it never panics.
C3_GetComponentBounds ==
    (query.op = "get_component" /\ query.args[1] >= N) => query.res.tag = "Err"

\* C4 (SpecEngine): construction fails if and only if the samples are empty
\* (with the empty-input error) or some sample has a NaN or infinite real or
\* imaginary part (with the invalid-values error); otherwise it succeeds with
\* size() = N and N coefficients.
C4_Construction ==
    LET empty == Len(data) = 0
        nonfinite == \E j \in 1..Len(data) :
                        \/ data[j].re.cls \in {"nan", "inf"}
                        \/ data[j].im.cls \in {"nan", "inf"}
    IN  /\ (engine.tag = "Err") <=> (empty \/ nonfinite)
        /\ empty => engine.val = "Input vector is empty"
        /\ (~empty /\ nonfinite)
              => engine.val = "Input vector contains invalid values (NaN or Inf)"
        /\ engine.tag = "Ok"
              => /\ size(engine.val) = Len(data)
                 /\ Len(engine.val.transform) = Len(data)
                 /\ \A j \in 1..Len(data) :
                        original(engine.val)[j] = << data[j].re.v, data[j].im.v >>

\* a signal of several samples whose only defect is a NaN imaginary part was
\* rejected
C4_Witness ==
    /\ Len(data) >= 2
    /\ engine.tag = "Err"
    /\ \E j \in 1..Len(data) : data[j].im.cls = "nan"
    /\ \A j \in 1..Len(data) : data[j].re.cls = "fin"

\* C5 (SpecEngine): max_frequency() returns floor(N / 2).
C5_MaxFrequencyIsHalf ==
    query.op = "max_frequency"
    => query.res.tag = "Ok" /\ query.res.val = N \div 2

\* C6 (Spec): a step taken while the controller is Stopped or Paused leaves
\* the position unchanged and renders nothing.
C6_StepNoOpUnlessPlaying ==
    [][ (lastOp' = "step" /\ (is_stopped \/ is_paused))
        => (current_point' = current_point /\ frame' = NoFrame) ]_vars

\* C7 (Spec): stop, from any state, leaves the controller Stopped at position
\* 0; called while Stopped at position 0 it changes no field of the controller.
C7_StopSafe ==
    [][ lastOp' = "stop"
        => /\ is_stopped'
           /\ current_point' = 0
           /\ ~loop_running'
           /\ (is_stopped /\ current_point = 0)
                 => UNCHANGED << k_min, k_max, current_point, point_speed,
                                 is_paused, is_stopped, loop_running >> ]_vars

\* stop has been called on a controller that was playing a reverse animation
C7_Witness ==
    /\ lastOp = "stop"
    /\ is_stopped
    /\ ~is_paused
    /\ point_speed < 0
    /\ current_point = 0

\* C8 (Spec): the only call that leaves Stopped is start, which makes the
\* controller Playing; after play or pause called while Stopped, a following
\* step does not advance the position.
C8_OnlyStartLeavesStopped ==
    [][ /\ (is_stopped /\ ~is_stopped') => (lastOp' = "start" /\ ~is_paused')
        /\ (is_stopped /\ lastOp \in {"play", "pause"} /\ lastOp' = "step")
              => current_point' = current_point ]_vars

\* C9 (Spec): is_stopped() implies position = 0.
C9_StoppedAtZero == is_stopped => current_point = 0

\* C10 (Spec): on every tick executed while Playing, the index computation
\* N + floor(position) stays within the machine word and the index handed to
\* the engine queries is in 0..N-1.
C10_ValidIndex ==
    (lastOp = "step" /\ ~is_paused /\ ~is_stopped)
    => /\ ~frame.overflowed
       /\ frame.idx \in 0..(N - 1)

\* C11 (Spec): after every step executed while not paused, the stored
\* position lies in [0, N): it is wrapped both when it falls below 0 and when
\* it reaches N or more.  (Positions are in half samples, so N is 2 * N here.)
C11_PositionInRange ==
    (lastOp = "step" /\ ~is_paused)
    => (0 <= current_point /\ current_point < 2 * N)

\* C12 (Spec): cyclic wrap law.  After start() on a Stopped controller and a
\* run of step(dt) calls with one dt and one positive speed, the index handed
\* to plot_all after each tick is floor(total advance) mod N, where the total
\* advance is the sum of speed * dt over the ticks of the run; in particular
\* it is 0 when the total advance is exactly N.  (Ticks whose index
\* computation leaves the machine word are C10 and are left out here.)
C12_CyclicWrap ==
    (lastOp = "step" /\ run.total >= 0 /\ run.dt > 0 /\ ~frame.overflowed)
    => frame.idx = (run.total \div 2) % N

\* C13 (SpecEngine): epicycle consistency.  Whenever filtered_range(k_min,
\* k_max) returned a signal, then for every current_point p in 0..N-1 the tip
\* of the arrow chain over the same band (the sum of get_component(k, p) for
\* k in the band and of get_component(N - k, p) for k > 0) equals sample p of
\* that signal, within tolerance.
C13_EpicycleConsistency ==
    (query.op = "filtered_range" /\ query.res.tag = "Ok")
    => \A p \in 0..(N - 1) :
          LET tip == ChainTip(engine.val, query.args[1], query.args[2], p)
          IN  /\ tip.tag = "Ok"
              /\ Close(tip.val, query.res.val[p + 1])

\* a band with a positive frequency was reconstructed on an engine of at least
\* four samples, and the reconstruction is not the same at every sample
C13_Witness ==
    /\ query.op = "filtered_range"
    /\ query.res.tag = "Ok"
    /\ query.args[2] >= 1
    /\ N >= 4
    /\ \E p \in 2..N : ~Close(query.res.val[p], query.res.val[1])

\* C14 (Spec): a tick that finds the band invalid (k_min > k_max, or k_max
\* above max_frequency()) reports the error, draws nothing and does not
\* crash; the controller stays as it was (Playing, same speed, same band), so
\* the following ticks are processed the same way.
C14_InvalidBandTick ==
    [][ (/\ lastOp' = "step"
         /\ ~is_paused
         /\ ~frame'.overflowed
         /\ \/ k_min > k_max
            \/ LET max_freq == max_frequency(engine.val, build)
               IN  max_freq.tag = "Ok" /\ k_max > max_freq.val)
        => /\ frame'.reported
           /\ ~frame'.drawn
           /\ ~frame'.panicked
           /\ UNCHANGED << k_min, k_max, point_speed, is_paused, is_stopped >> ]_vars

\* the arithmetic mean of a signal
Mean(signal) ==
    LET RECURSIVE Sum(_, _)
        Sum(from, to) ==
            IF from > to THEN << 0, 0 >>
            ELSE IF from = to THEN signal[from]
            ELSE LET mid == (from + to) \div 2
                 IN  CAdd(Sum(from, mid), Sum(mid + 1, to))
        total == Sum(1, Len(signal))
    IN  << RoundDiv(total[1], Len(signal)), RoundDiv(total[2], Len(signal)) >>

\* C15 (SpecEngine): DC-only band.  On every engine, filtered_range(0, 0)
\* succeeds and returns a constant signal: every sample equals the arithmetic
\* mean of original(), within tolerance.
C15_DcOnlyBand ==
    (query.op = "filtered_range" /\ query.args = << 0, 0 >>)
    => /\ query.res.tag = "Ok"
       /\ \A j \in 1..N : Close(query.res.val[j], Mean(original(engine.val)))

\* a equals b within a relative tolerance of 1/200
Near(a, b) == (a - b) * 200 <= b /\ (b - a) * 200 <= b

\* the number of samples of the example step signal that are 1
ExampleOnes == Cardinality({ j \in 1..TOTAL_NUM_POINTS : ExampleReals[j] = Fin(1) })

ResultOf(q) ==
    CASE q.op = "filtered_range" -> filtered_range(engine.val, q.args[1], q.args[2], build)
      [] q.op = "get_component" -> get_component(engine.val, q.args[1], q.args[2])
      [] q.op = "power_spectrum" -> power_spectrum(engine.val, q.args[1], build)
      [] q.op = "max_frequency" -> max_frequency(engine.val, build)
      [] q.op = "size" -> Ok(size(engine.val))
      [] q.op = "original" -> Ok(original(engine.val))

\* C17 (SpecEngine): the engine is immutable after construction.  No query,
\* successful or failing, changes original or the coefficients, and what a
\* query returns is determined by the engine and the query's arguments alone,
\* so the same query returns the same result whenever it is made.
C17_EngineImmutable ==
    [][ /\ engine' = engine
        /\ data' = data
        /\ query'.res = ResultOf(query') ]_vars

\* a band was rejected by an engine of at least four samples, which still
\* holds the samples it was built from
C17_Witness ==
    /\ engine.tag = "Ok"
    /\ N >= 4
    /\ query.op = "filtered_range"
    /\ query.res.tag = "Err"
    /\ original(engine.val) = [j \in 1..Len(data) |-> ToFixed(data[j])]

\* C18 (Spec): set_speed(s) can be called in any state (Stopped, Paused or
\* Playing) and changes the speed only: the flags, the position and the band
\* are what they were, and speed() afterwards returns s.
C18_SetSpeedOnlySpeed ==
    [][ lastOp' = "set_speed"
        => /\ point_speed' = lastArg'
           /\ UNCHANGED << k_min, k_max, current_point, is_paused, is_stopped,
                           loop_running >> ]_vars

\* set_speed(-1.0) has been called on a paused animation that had advanced,
\* and the animation is still paused where it was
C18_Witness ==
    /\ lastOp = "set_speed"
    /\ lastArg = -1
    /\ point_speed = -1
    /\ is_paused
    /\ ~is_stopped
    /\ current_point > 0

\* the coefficient indices the inner loop of idft adds to res for one output
\* sample, in the order it adds them: k, then N - k when k is not 0
IdftIndices(total_points, kmin, kmax) ==
    LET RECURSIVE Indices(_)
        Indices(k) == IF k > kmax THEN << >>
                      ELSE IF k = 0 THEN << 0 >> \o Indices(k + 1)
                      ELSE << k, total_points - k >> \o Indices(k + 1)
    IN  Indices(kmin)

\* the normalised sum of the coefficients at the given indices, for output
\* sample i
SumOver(transform, indices, i) ==
    LET total_points == Len(transform)
        RECURSIVE Sum(_)
        Sum(j) == IF j > Len(indices) THEN << 0, 0 >>
                  ELSE CAdd(CMul(transform[indices[j] + 1],
                                 CExp(total_points, i * indices[j])),
                            Sum(j + 1))
    IN  CScale(Sum(1), RoundDiv(Scale * Scale, sqrt(total_points)))

\* C19 (SpecEngine): for every band filtered_range accepts, each coefficient
\* index is summed at most once per output sample.  Index 0 is summed exactly
\* once when k_min = 0; for every k > 0 of the band the indices k and N - k
\* are both summed, and they differ from one another and from every other
\* index summed.  The signal returned is the sum over exactly these indices.
C19_NoDoubleCounting ==
    (query.op = "filtered_range" /\ query.res.tag = "Ok")
    => LET kmin == query.args[1]
           kmax == query.args[2]
           indices == IdftIndices(N, kmin, kmax)
       IN  /\ \A j \in 1..Len(indices) : indices[j] \in 0..(N - 1)
           /\ \A j, l \in 1..Len(indices) : indices[j] = indices[l] => j = l
           /\ Cardinality({ j \in 1..Len(indices) : indices[j] = 0 })
                 = IF kmin = 0 THEN 1 ELSE 0
           /\ \A k \in kmin..kmax :
                 k > 0 => /\ k # N - k
                          /\ \E j \in 1..Len(indices) : indices[j] = k
                          /\ \E j \in 1..Len(indices) : indices[j] = N - k
           /\ \A i \in 0..(N - 1) :
                 query.res.val[i + 1] = SumOver(engine.val.transform, indices, i)

\* a band holding a positive frequency was accepted: the indices summed are
\* k_min..k_max and their mirrors
C19_Witness ==
    /\ query.op = "filtered_range"
    /\ query.res.tag = "Ok"
    /\ query.args = << 0, 1 >>
    /\ N = 5
    /\ IdftIndices(N, 0, 1) = << 0, 1, 4 >>

\* C20 (Spec): the controller never hands an invalid band to the engine.  On
\* every tick that gets as far as the engine queries (filtered_range and
\* get_component), the band has k_min <= k_max and every frequency index the
\* controller passes to get_component lies in 0..N-1.
C20_QueriesUseValidBand ==
    (lastOp = "step" /\ frame.drawn)
    => LET chain == ChainFrequencies(engine.val, k_min, k_max)
       IN  /\ k_min <= k_max
           /\ \A j \in 1..Len(chain) : chain[j] \in 0..(N - 1)

\* C25 (SpecEngine): on every engine construction accepts, max_frequency() is
\* computed without integer underflow and is a valid coefficient index
\* (below N), and filtered_range never indexes a coefficient outside 0..N-1
\* (it does not panic).
C25_MaxFrequencyValid ==
    /\ query.op = "max_frequency"
          => (query.res.tag = "Ok" /\ query.res.val < N)
    /\ query.op = "filtered_range" => query.res.tag # "Panic"

\* C23 (SpecEngine): power_spectrum returns the squared magnitude of every
\* coefficient in index order 0..N-1; the shifted view is a rotation of the
\* same values whose frequency labels are strictly increasing, negative
\* frequencies before 0, each label f paired with the power of coefficient
\* f mod N.  (Engines of two or more samples; N = 1 is C25.)
C23_PowerSpectrumViews ==
    (query.op = "power_spectrum" /\ N >= 2)
    => /\ query.res.tag = "Ok"
       /\ LET freq == query.res.val.freq
              powers == query.res.val.powers
          IN  /\ Len(freq) = N /\ Len(powers) = N
              /\ \A j \in 1..N :
                    powers[j] = norm_sqr(engine.val.transform[(freq[j] % N) + 1])
              /\ \A j \in 1..(N - 1) : freq[j] < freq[j + 1]
              /\ ~query.args[1] => \A j \in 1..N : freq[j] = j - 1
              /\ { freq[j] % N : j \in 1..N } = 0..(N - 1)

\* C26 (Spec): the canvas animation loop has been asked to run exactly when
\* the controller is not stopped: from from_fourier on, after every call, the
\* loop has been started and not since stopped if and only if is_stopped() is
\* false; play and pause never start or stop the loop.
C26_LoopIffNotStopped ==
    /\ loop_running <=> ~is_stopped
    /\ [][ /\ loop_running' <=> ~is_stopped'
           /\ lastOp' \in {"play", "pause"} => loop_running' = loop_running ]_vars

\* play has been called on a stopped controller: the controller is still
\* stopped and its loop is still not running
C26_Witness ==
    /\ lastOp = "play"
    /\ is_stopped
    /\ ~is_paused
    /\ ~loop_running

\* C29 (Spec): reverse playback.  On a tick that is not paused and has a
\* negative speed, if position + speed * elapsed is below 0 the stored
\* position becomes exactly N and the tick's index is 0; otherwise the position
\* counts down by speed * elapsed and the index is floor(position) mod N.  So
\* at unit step the tick after position 0 (index 0) wraps to N and has index 0
\* again, and a cycle N, N-1, .., 1, 0 takes N + 1 ticks.
C29_ReversePlayback ==
    [][ (lastOp' = "step" /\ ~is_paused /\ point_speed < 0)
        => LET advanced == current_point + point_speed * lastArg'
           IN  IF advanced < 0
               THEN current_point' = 2 * N /\ frame'.idx = 0
               ELSE /\ current_point' = advanced
                    /\ frame'.idx = (advanced \div 2) % N ]_vars

\* a reverse animation at unit step has wrapped: the tick taken at position 0
\* left the position at N, with index 0
C29_Witness ==
    /\ lastOp = "step"
    /\ lastArg = 2
    /\ point_speed = -1
    /\ ~is_paused
    /\ N >= 3
    /\ current_point = 2 * N
    /\ frame.idx = 0

\* C30 (Spec): a tick whose band validation fails advances the position like
\* any other tick: on every step that is not paused, reported or drawn, the
\* new position is the old one plus speed * elapsed (wrapped to N when that
\* is below 0), so after any number of failed ticks the position is what the
\* same ticks would have left with a valid band.
C30_FailedTickAdvances ==
    [][ (lastOp' = "step" /\ ~is_paused)
        => LET advanced == current_point + point_speed * lastArg'
           IN  /\ lastArg' \in ElapsedHalves
               /\ current_point' = IF advanced < 0 THEN 2 * N ELSE advanced ]_vars

\* two ticks in a row have found the band invalid, and the position is the
\* sum of their advances
C30_Witness ==
    /\ lastOp = "step"
    /\ frame.reported
    /\ ~frame.drawn
    /\ run.dt > 0
    /\ run.total = 2 * run.speed * run.dt
    /\ current_point = run.total

\* C21 (Spec): on every tick that rendered (band accepted, no crash) with
\* index current_point in 0..N-1, the partial curve handed to the canvas is
\* exactly the samples of filtered_range(k_min, k_max) at indices
\* 0..=current_point, also for current_point 0 and 1.
C21_PartialCurve ==
    (/\ lastOp = "step"
     /\ frame.drawn
     /\ ~frame.panicked
     /\ frame.idx \in 0..(N - 1))
    => LET recon == filtered_range(engine.val, k_min, k_max, build)
       IN  /\ recon.tag = "Ok"
           /\ frame.curve = SubSeq(recon.val, 1, frame.idx + 1)

\* C22 (Spec): on every rendered tick the arrow chain is drawn in ascending
\* order of k from k_min to k_max, each k > 0 immediately followed by its
\* partner N - k (none for k = 0); every arrow is the component
\* get_component(frequency, current_point), the first starts at the origin
\* and each next one starts where the previous one ended; the number of
\* arrows is 2 * (k_max - k_min + 1), minus 1 when k_min = 0.
C22_ChainOrder ==
    (lastOp = "step" /\ frame.drawn /\ ~frame.panicked)
    => LET arrows == frame.arrows
           \* the place of frequency k's arrow in the chain
           PlaceOf(k) == IF k_min = 0 THEN (IF k = 0 THEN 1 ELSE 2 * k)
                         ELSE 2 * (k - k_min) + 1
           Component(f) == get_component(engine.val, f, frame.idx).val
       IN  /\ Len(arrows) = 2 * (k_max - k_min + 1) - (IF k_min = 0 THEN 1 ELSE 0)
           /\ arrows[1].start = << 0, 0 >>
           /\ \A j \in 1..(Len(arrows) - 1) : arrows[j + 1].start = arrows[j].end
           /\ \A k \in k_min..k_max :
                 /\ arrows[PlaceOf(k)].end
                       = CAdd(arrows[PlaceOf(k)].start, Component(k))
                 /\ k > 0 => arrows[PlaceOf(k) + 1].end
                                = CAdd(arrows[PlaceOf(k) + 1].start, Component(N - k))

\* a tick has drawn the chain of the band (0, 1) on a 4-sample engine: three
\* arrows, for the frequencies 0, 1 and 3, the last two of them different
C22_Witness ==
    /\ lastOp = "step"
    /\ frame.drawn
    /\ ~frame.panicked
    /\ N = 4
    /\ k_min = 0
    /\ k_max = 1
    /\ Len(frame.arrows) = 3
    /\ frame.arrows[2].end # frame.arrows[2].start
    /\ frame.arrows[3].end = frame.arrows[3].start

\* x is the f64 nearest to (num / den) * s, for num / den in {3/2, 2/3}:
\* |den * x - num * s| <= den * ulp(x) / 2, compared in units of 2^(s.e - 1)
IsNearest(x, num, den, s) ==
    LET d == x.e - s.e
        diff == WDist(WMul(Significand(x), den * Pow2(d + 1)),
                      WMul(Significand(s), 2 * num))
    IN  /\ d \in -1..1
        /\ x.hi >= Limb /\ x.hi < 2 * Limb
        /\ diff.hi = 0
        /\ 2 * diff.lo <= den * Pow2(d + 1)

\* the f64 next above x > 0
F64Succ(x) ==
    LET m == WAdd(Significand(x), [hi |-> 0, lo |-> 1])
    IN  IF m.hi = 2 * Limb THEN [hi |-> Limb, lo |-> 0, e |-> x.e + 1]
        ELSE [hi |-> m.hi, lo |-> m.lo, e |-> x.e]
\* a and b are the same f64 or neighbours
WithinOneUlp(a, b) == a = b \/ a = F64Succ(b) \/ b = F64Succ(a)

\* the two last handler calls were an increase and a decrease, in either order
InverseControls(p) ==
    p.ops \in { << "increase", "decrease" >>, << "decrease", "increase" >> }

\* C24 as stated (SpecApp): increase_animation_speed sets the speed to 3/2 of
\* it and decrease_animation_speed to 2/3 of it (the nearest f64), neither
\* changes the play/pause/stop state, the loop or the position, an increase
\* followed by a decrease, in either order, leaves exactly the speed there
\* was before the two, and the speed of the controller is always positive.
C24_ControlsRestoreExactly ==
    [][ /\ (lastOp' = "increase_animation_speed" /\ ANIMATION.some)
           => /\ IsNearest(point_speed', 3, 2, point_speed)
              /\ UNCHANGED << is_paused, is_stopped, loop_running, current_point >>
        /\ (lastOp' = "decrease_animation_speed" /\ ANIMATION.some)
           => /\ IsNearest(point_speed', 2, 3, point_speed)
              /\ UNCHANGED << is_paused, is_stopped, loop_running, current_point >>
        /\ InverseControls(past') => point_speed' = past'.speeds[1]
        /\ ANIMATION'.some => F64Less(F64Zero, point_speed') ]_vars

\* C24 as amended (SpecApp): the same, with the speed after an increase and a
\* decrease (in either order) equal to the speed before the two up to the
\* rounding of f64: the same value or one of its two neighbours.
C24_ControlsRestoreWithinRounding ==
    [][ /\ (lastOp' = "increase_animation_speed" /\ ANIMATION.some)
           => /\ IsNearest(point_speed', 3, 2, point_speed)
              /\ UNCHANGED << is_paused, is_stopped, loop_running, current_point >>
        /\ (lastOp' = "decrease_animation_speed" /\ ANIMATION.some)
           => /\ IsNearest(point_speed', 2, 3, point_speed)
              /\ UNCHANGED << is_paused, is_stopped, loop_running, current_point >>
        /\ InverseControls(past') => WithinOneUlp(point_speed', past'.speeds[1])
        /\ ANIMATION'.some => F64Less(F64Zero, point_speed') ]_vars

\* a decrease and then an increase have been called on a Playing controller
\* that has advanced, and the speed is the neighbour of the one before them
C24_Witness ==
    /\ ANIMATION.some
    /\ ~is_paused
    /\ ~is_stopped
    /\ ~F64IsZero(current_point)
    /\ past.ops = << "decrease", "increase" >>
    /\ point_speed # past.speeds[1]
    /\ WithinOneUlp(point_speed, past.speeds[1])

\* C27 (SpecApp): play_pause_animation acts by priority.  With no controller
\* or a Stopped one it installs a new controller, started, on the band it was
\* given; else a Paused controller is resumed; else a Playing controller whose
\* speed is not the default gets the default speed and stays Playing; else
\* the controller is paused.  The last three cases change nothing else.  No
\* two toggles in a row find a Playing controller and leave it Playing (the
\* second reaches Paused), and no toggle pauses at a speed other than the
\* default.
C27_TogglePriority ==
    [][ lastOp' = "play_pause_animation"
        => /\ IF ~ANIMATION.some \/ is_stopped
              THEN /\ past'.installed
                   /\ ANIMATION'.some
                   /\ ~is_stopped' /\ ~is_paused' /\ loop_running'
                   /\ << k_min', k_max' >> = lastArg'
              ELSE /\ ~past'.installed
                   /\ UNCHANGED << data, engine, k_min, k_max, current_point,
                                   is_stopped, loop_running, ANIMATION >>
                   /\ IF is_paused
                      THEN ~is_paused' /\ point_speed' = point_speed
                      ELSE IF point_speed # DefaultSpeed
                      THEN ~is_paused' /\ point_speed' = DefaultSpeed
                      ELSE is_paused' /\ point_speed' = point_speed
           /\ past'.toggles <= 1
           /\ (is_paused' /\ ~is_paused) => point_speed' = DefaultSpeed ]_vars

\* a toggle has found a controller that had advanced Playing at another speed
\* than the default, and has left it Playing at the default speed
C27_Witness ==
    /\ lastOp = "play_pause_animation"
    /\ past.toggles = 1
    /\ ANIMATION.some
    /\ ~is_paused
    /\ ~is_stopped
    /\ point_speed = DefaultSpeed
    /\ ~F64IsZero(current_point)

\* the controllers whose animation loop has been started and not stopped: the
\* dropped ones and the one ANIMATION holds
RunningLoops(animation, running) ==
    animation.dropped_running + (IF animation.some /\ running THEN 1 ELSE 0)

\* C28 (SpecApp): under any sequence of toggles, stop, speed controls and
\* ticks, a controller is installed only when ANIMATION holds none or a
\* Stopped one; a Playing or Paused controller stays the one ANIMATION holds,
\* on its engine and band; at most one controller has a running animation
\* loop; and an installed controller starts at position 0 with the default
\* speed, whatever the speed of the controller before it was.
C28_ReplacedOnlyWhenStopped ==
    [][ /\ past'.installed => (~ANIMATION.some \/ is_stopped)
        /\ (ANIMATION.some /\ ~is_stopped)
           => /\ ANIMATION'.some
              /\ UNCHANGED << data, engine, k_min, k_max >>
        /\ RunningLoops(ANIMATION', loop_running') <= 1
        /\ past'.installed
           => /\ current_point' = F64Zero
              /\ point_speed' = DefaultSpeed ]_vars

\* a toggle has replaced a Stopped controller whose speed was not the default:
\* the new one is at position 0, at the default speed, with the only running
\* loop
C28_Witness ==
    /\ lastOp = "play_pause_animation"
    /\ past.installed
    /\ Len(past.speeds) = 1
    /\ past.speeds[1] # DefaultSpeed
    /\ ANIMATION.some
    /\ F64IsZero(current_point)
    /\ point_speed = DefaultSpeed
    /\ RunningLoops(ANIMATION, loop_running) = 1

====
